---------------------------- MODULE Spec2Model ----------------------------
(***************************************************************************)
(* A state-machine model of the actix-service combinators:                 *)
(*   AndThen / AndThenFuture           (and_then.rs)                       *)
(*   Map / MapFuture                   (map.rs)                            *)
(*   MapErr / MapErrFuture             (map_err.rs)                        *)
(*   FromErr / FromErrFuture           (from_err.rs)                       *)
(*   MapInitErr / MapInitErrFuture     (map_init_err.rs)                   *)
(*                                                                         *)
(* The wrapped services A and B are generic in the source.  They are the   *)
(* environment of the model: what a sub-service's poll_ready returns and   *)
(* what one of its futures returns at a poll are inputs drawn with \E.     *)
(* A value of type Poll<Result<T, E>> is a record [tag, val]; val is a     *)
(* sequence of strings (empty for Pending and for Ok(())).                 *)
(***************************************************************************)
EXTENDS Naturals, Sequences, FiniteSets

VARIABLES
    srv,     \* AndThen<A, B>: the outcome of its most recent poll_ready
    b,       \* the tail service B behind the Cell<B>, shared by all futures
    futs,    \* the AndThenFutures returned by AndThen::call, in call order
    msrv,    \* Map / MapErr / FromErr: its most recent poll_ready (a: what A
             \* returned, out: what it returned, nf: calls of the function)
    mfuts,   \* MapFuture / MapErrFuture / FromErrFuture, in call order
    ifuts,   \* the futures returned by a factory's new_service, in call order
             \* (MapInitErrFuture with the service it built, ...)
    cells,   \* the contents of the Cell<T>s allocated so far; a Cell handle
             \* is an index into it, Cell::clone copies the index
    objs,    \* the services (or factories) alive that hold Cell handles
    jobs     \* actix-threadpool: the closures handed to run(), in call order

\* the variables the combinators without Cell handles or pool jobs leave alone
aux == <<cells, objs, jobs>>

vars == <<srv, b, futs, msrv, mfuts, ifuts, cells, objs, jobs>>

-----------------------------------------------------------------------------
(* Bounds and value sets *)

\* the number of futures (calls in flight or finished) a behaviour creates
MaxCalls == 2

\* the request of the n-th call; requests are opaque to every combinator, so
\* the calls of a behaviour carry distinct ones to tell them apart
ReqNames == <<"r1", "r2", "r3", "r4">>
Req(n) == ReqNames[n]
Errs == {"e1", "e2"}
Cfgs == {"cfg1", "cfg2"}

-----------------------------------------------------------------------------
(* Poll<Result<T, E>> *)

Pending == [tag |-> "Pending", val |-> <<>>]
ReadyOk(v) == [tag |-> "Ok", val |-> v]
ReadyErr(e) == [tag |-> "Err", val |-> e]
\* a poll that unwinds (a completed sub-future polled again may panic)
Panic == [tag |-> "Panic", val |-> <<>>]
\* no poll has been made yet
NoPoll == [tag |-> "None", val |-> <<>>]

\* Poll::is_ready: true of Ready(Ok(_)) and of Ready(Err(_)) alike
is_ready(p) == p.tag \in {"Ok", "Err"}

\* what a sub-service's poll_ready may return
ReadyOuts == {Pending, ReadyOk(<<>>)} \cup {ReadyErr(<<e>>) : e \in Errs}

-----------------------------------------------------------------------------
(* The environment: the generic sub-services A and B and their futures *)

\* Srv1::call / Srv2::call of the tests: the response carries the request
ARsp(r) == <<r, "srv1">>
BRsp(v) == v \o <<"srv2">>

\* what the future of A.call(r), of B.call(v), may resolve to
AOutcomes(r) == {ReadyOk(ARsp(r))} \cup {ReadyErr(<<e>>) : e \in Errs}
BOutcomes(v) == {ReadyOk(BRsp(v))} \cup {ReadyErr(<<e>>) : e \in Errs}

\* A sub-future is [st, req, out]: st is "pending" until a poll of it returns
\* Ready(out), and "done" from then on.
NewSub(req) == [st |-> "pending", req |-> req, out |-> NoPoll]
NoSub == [st |-> "none", req |-> <<>>, out |-> NoPoll]

\* What a poll of sub-future sf may return.  A pending one returns Pending or
\* resolves; one that has completed and is polled again (Future's contract
\* forbids it) panics, as futures::future::Ready does, stays Pending or
\* repeats its output.
SubPoll(sf, outs) ==
    IF sf.st = "pending" THEN {Pending} \cup outs ELSE {Panic, Pending, sf.out}

\* the sub-future after a poll of it returned p
SubAfter(sf, p) ==
    IF sf.st = "pending" /\ is_ready(p) THEN [sf EXCEPT !.st = "done", !.out = p]
    ELSE sf

-----------------------------------------------------------------------------
(* AndThen<A, B> *)

\* AndThen::poll_ready, given what A.poll_ready() and B.poll_ready() return.
\* Both are invoked, A first; only is_ready() of each result is looked at.
AndThen_poll_ready(ra, rb) ==
    LET not_ready == ~is_ready(ra)
    IN  IF ~is_ready(rb) \/ not_ready THEN Pending ELSE ReadyOk(<<>>)

\* AndThenFuture::new: fut_a is Some(a), fut_b is None.  A fut_a of st
\* "taken" is None (its out keeps what the taken future had returned).
\* ret is what the last poll returned, out the first Ready it returned, nb the
\* number of B.call invocations this future has made.
AndThenFuture_new(req) ==
    [req |-> req, fut_a |-> NewSub(req), fut_b |-> NoSub,
     ret |-> NoPoll, out |-> NoPoll, nb |-> 0]

RECURSIVE AndThenFuture_poll(_, _, _)

\* AndThenFuture::poll with a fut_a that is never taken and is looked at
\* first: a completed call invokes B.call again when polled again.
AndThenFuture_poll_recall(f, pa, pb) ==
    IF f.fut_b.st = "done"
    THEN [fut |-> f, ret |-> pb, bcalls |-> <<f.fut_b.req>>]
    ELSE IF f.fut_b.st # "none"
    THEN [fut |-> [f EXCEPT !.fut_b = SubAfter(f.fut_b, pb)],
          ret |-> pb, bcalls |-> <<>>]
    ELSE CASE pa.tag = "Ok" ->
                LET g == [f EXCEPT !.fut_a = [@ EXCEPT !.st = "taken", !.out = pa],
                                   !.fut_b = NewSub(pa.val)]
                    r == AndThenFuture_poll(g, pa, pb)
                IN  [r EXCEPT !.bcalls = <<pa.val>> \o @]
           [] pa.tag = "Err" ->
                [fut |-> [f EXCEPT !.fut_a = SubAfter(f.fut_a, pa)],
                 ret |-> pa, bcalls |-> <<>>]
           [] OTHER -> [fut |-> f, ret |-> pa, bcalls |-> <<>>]

\* AndThenFuture::poll answering with A's response as soon as A succeeds,
\* leaving B's future unpolled.
AndThenFuture_poll_early(f, pa, pb) ==
    IF f.fut_b.st # "none"
    THEN [fut |-> [f EXCEPT !.fut_b = SubAfter(f.fut_b, pb)],
          ret |-> pb, bcalls |-> <<>>]
    ELSE CASE pa.tag = "Ok" ->
                LET g == [f EXCEPT !.fut_a = [@ EXCEPT !.st = "taken", !.out = pa],
                                   !.fut_b = NewSub(pa.val)]
                IN  [fut |-> g, ret |-> pa, bcalls |-> <<pa.val>>]
           [] pa.tag = "Err" ->
                [fut |-> [f EXCEPT !.fut_a = SubAfter(f.fut_a, pa)],
                 ret |-> pa, bcalls |-> <<>>]
           [] OTHER -> [fut |-> f, ret |-> pa, bcalls |-> <<>>]

\* AndThenFuture::poll without the short-circuit: any Ready output of A's
\* future, a failure included, is handed to B.call.
AndThenFuture_poll_noshort(f, pa, pb) ==
    IF f.fut_b.st # "none"
    THEN [fut |-> [f EXCEPT !.fut_b = SubAfter(f.fut_b, pb)],
          ret |-> pb, bcalls |-> <<>>]
    ELSE CASE is_ready(pa) ->
                LET g == [f EXCEPT !.fut_a = SubAfter(f.fut_a, pa),
                                   !.fut_b = NewSub(pa.val)]
                    r == AndThenFuture_poll(g, pa, Pending)
                IN  [r EXCEPT !.bcalls = <<pa.val>> \o @]
           [] OTHER -> [fut |-> f, ret |-> pa, bcalls |-> <<>>]

\* AndThenFuture::poll keeping A's response and returning Pending in the poll
\* that sees A succeed; B.call is made by the next poll.
AndThenFuture_poll_deferred(f, pa, pb) ==
    IF f.fut_b.st # "none"
    THEN [fut |-> [f EXCEPT !.fut_b = SubAfter(f.fut_b, pb)],
          ret |-> pb, bcalls |-> <<>>]
    ELSE IF f.fut_a.st = "taken"
    THEN [fut |-> [f EXCEPT !.fut_b = NewSub(f.fut_a.out.val)],
          ret |-> Pending, bcalls |-> <<f.fut_a.out.val>>]
    ELSE CASE pa.tag = "Ok" ->
                [fut |-> [f EXCEPT !.fut_a = [@ EXCEPT !.st = "taken", !.out = pa]],
                 ret |-> Pending, bcalls |-> <<>>]
           [] pa.tag = "Err" ->
                [fut |-> [f EXCEPT !.fut_a = SubAfter(f.fut_a, pa)],
                 ret |-> pa, bcalls |-> <<>>]
           [] OTHER -> [fut |-> f, ret |-> pa, bcalls |-> <<>>]

\* AndThenFuture::poll handing A's response to B.call and returning Pending
\* at once, the new fut_b left unpolled until the next poll.
AndThenFuture_poll_yield(f, pa, pb) ==
    IF f.fut_b.st # "none"
    THEN [fut |-> [f EXCEPT !.fut_b = SubAfter(f.fut_b, pb)],
          ret |-> pb, bcalls |-> <<>>]
    ELSE CASE pa.tag = "Ok" ->
                LET g == [f EXCEPT !.fut_a = [@ EXCEPT !.st = "taken", !.out = pa],
                                   !.fut_b = NewSub(pa.val)]
                IN  [fut |-> g, ret |-> Pending, bcalls |-> <<pa.val>>]
           [] pa.tag = "Err" ->
                [fut |-> [f EXCEPT !.fut_a = SubAfter(f.fut_a, pa)],
                 ret |-> pa, bcalls |-> <<>>]
           [] OTHER -> [fut |-> f, ret |-> pa, bcalls |-> <<>>]

\* AndThenFuture::poll leaving the completed fut_a in its slot when B.call is
\* made.
AndThenFuture_poll_keep(f, pa, pb) ==
    IF f.fut_b.st # "none"
    THEN [fut |-> [f EXCEPT !.fut_b = SubAfter(f.fut_b, pb)],
          ret |-> pb, bcalls |-> <<>>]
    ELSE CASE pa.tag = "Ok" ->
                LET g == [f EXCEPT !.fut_a = SubAfter(f.fut_a, pa),
                                   !.fut_b = SubAfter(NewSub(pa.val), pb)]
                IN  [fut |-> g, ret |-> pb, bcalls |-> <<pa.val>>]
           [] pa.tag = "Err" ->
                [fut |-> [f EXCEPT !.fut_a = SubAfter(f.fut_a, pa)],
                 ret |-> pa, bcalls |-> <<>>]
           [] OTHER -> [fut |-> f, ret |-> pa, bcalls |-> <<>>]

\* AndThenFuture::poll handing B the request of the call instead of A's
\* response.
AndThenFuture_poll_rawreq(f, pa, pb) ==
    IF f.fut_b.st # "none"
    THEN [fut |-> [f EXCEPT !.fut_b = SubAfter(f.fut_b, pb)],
          ret |-> pb, bcalls |-> <<>>]
    ELSE CASE pa.tag = "Ok" ->
                LET g == [f EXCEPT !.fut_a = [@ EXCEPT !.st = "taken", !.out = pa],
                                   !.fut_b = SubAfter(NewSub(<<f.req>>), pb)]
                IN  [fut |-> g, ret |-> pb, bcalls |-> << <<f.req>> >>]
           [] pa.tag = "Err" ->
                [fut |-> [f EXCEPT !.fut_a = SubAfter(f.fut_a, pa)],
                 ret |-> pa, bcalls |-> <<>>]
           [] OTHER -> [fut |-> f, ret |-> pa, bcalls |-> <<>>]

\* AndThenFuture::poll without the arm for A's success: a response of A is
\* answered with Pending, fut_a stays in its slot and B.call is never made.
AndThenFuture_poll_ignore(f, pa, pb) ==
    IF f.fut_b.st # "none"
    THEN [fut |-> [f EXCEPT !.fut_b = SubAfter(f.fut_b, pb)],
          ret |-> pb, bcalls |-> <<>>]
    ELSE CASE pa.tag = "Err" ->
                [fut |-> [f EXCEPT !.fut_a = SubAfter(f.fut_a, pa)],
                 ret |-> pa, bcalls |-> <<>>]
           [] OTHER -> [fut |-> f, ret |-> Pending, bcalls |-> <<>>]

\* AndThenFuture::poll.  pa is what fut_a.try_poll() returns if it is polled,
\* pb what fut_b.try_poll() returns if it is polled.  The result is the
\* future after the poll, the value returned, and the requests handed to
\* B.call during the poll.
AndThenFuture_poll(f, pa, pb) ==
    IF f.fut_b.st # "none"
    THEN \* if let Some(ref mut fut) = self.fut_b { return fut.try_poll(); }
         [fut |-> [f EXCEPT !.fut_b = SubAfter(f.fut_b, pb)],
          ret |-> pb, bcalls |-> <<>>]
    ELSE \* match self.fut_a.as_mut().expect(..).try_poll()
         CASE pa.tag = "Ok" ->
                \* fut_a.take(); fut_b = Some(b.get_mut().call(resp)); self.try_poll()
                LET g == [f EXCEPT !.fut_a = [@ EXCEPT !.st = "taken", !.out = pa],
                                   !.fut_b = NewSub(pa.val)]
                    r == AndThenFuture_poll(g, pa, pb)
                IN  [r EXCEPT !.bcalls = <<pa.val>> \o @]
           [] pa.tag = "Err" ->
                [fut |-> [f EXCEPT !.fut_a = SubAfter(f.fut_a, pa)],
                 ret |-> pa, bcalls |-> <<>>]
           [] OTHER -> \* Pending, or the panic of a completed fut_a
                [fut |-> f, ret |-> pa, bcalls |-> <<>>]

\* what the caller of a future sees of a poll that returned ret
Polled(f, g, ret, n) ==
    [g EXCEPT !.ret = ret,
              !.out = IF f.out = NoPoll /\ is_ready(ret) THEN ret ELSE f.out,
              !.nb = f.nb + n]

NoFuts == <<>>
IdleSrv == [a |-> NoPoll, bs |-> NoPoll, out |-> NoPoll]
IdleB == [last |-> NoPoll, log |-> <<>>]
IdleM == [a |-> NoPoll, out |-> NoPoll, nf |-> 0]

Init ==
    /\ srv = IdleSrv
    /\ b = IdleB
    /\ futs = NoFuts
    /\ msrv = IdleM
    /\ mfuts = NoFuts
    /\ ifuts = NoFuts
    /\ cells = <<>>
    /\ objs = <<>>
    /\ jobs = <<>>

\* srv.poll_ready(): A and B each answer anything a service may answer
PollReady ==
    \E ra \in ReadyOuts, rb \in ReadyOuts :
        /\ srv' = [a |-> ra, bs |-> rb, out |-> AndThen_poll_ready(ra, rb)]
        /\ b' = [b EXCEPT !.last = rb]
        /\ UNCHANGED <<aux, futs, msrv, mfuts, ifuts>>

\* srv.call(req), by a caller that keeps Service's contract: the most recent
\* poll_ready returned Ready(Ok(())).  A.call(req) is invoked at once,
\* B is only cloned.
Call ==
    /\ srv.out = ReadyOk(<<>>)
    /\ Len(futs) < MaxCalls
    /\ futs' = Append(futs, AndThenFuture_new(Req(Len(futs) + 1)))
    /\ UNCHANGED <<aux, srv, b, msrv, mfuts, ifuts>>

\* one poll of the i-th AndThenFuture, before or after it has resolved; a
\* future whose poll panicked is not polled again
Poll ==
    \E i \in 1..Len(futs) :
        LET f == futs[i] IN
        /\ f.ret # Panic
        /\ \E pa \in (IF f.fut_b.st = "none"
                      THEN SubPoll(f.fut_a, AOutcomes(f.req)) ELSE {NoPoll}) :
           \E pb \in (IF f.fut_b.st # "none"
                      THEN SubPoll(f.fut_b, BOutcomes(f.fut_b.req))
                      ELSE IF pa.tag = "Ok"
                      THEN SubPoll(NewSub(pa.val), BOutcomes(pa.val))
                      ELSE {NoPoll}) :
              LET r == AndThenFuture_poll(f, pa, pb) IN
              /\ futs' = [futs EXCEPT ![i] = Polled(f, r.fut, r.ret, Len(r.bcalls))]
              /\ b' = [b EXCEPT !.log = @ \o r.bcalls]
        /\ UNCHANGED <<aux, srv, msrv, mfuts, ifuts>>

NextAndThen == PollReady \/ Call \/ Poll

SpecAndThen == Init /\ [][NextAndThen]_vars

-----------------------------------------------------------------------------
(* Properties of AndThen, checked under SpecAndThen *)

\* the number of entries of sequence q equal to x
RECURSIVE Count(_, _)
Count(q, x) ==
    IF q = <<>> THEN 0
    ELSE (IF q[1] = x THEN 1 ELSE 0) + Count(Tail(q), x)

\* C1: in every invocation AndThen::poll_ready returns Ready(Ok(())) exactly
\* when A.poll_ready and B.poll_ready both reported ready in that invocation,
\* and Pending whenever one of them was not ready.
C1_ReadyIffBothReady ==
    srv.out # NoPoll =>
        /\ srv.out = ReadyOk(<<>>) <=>
              (srv.a = ReadyOk(<<>>) /\ srv.bs = ReadyOk(<<>>))
        /\ (srv.a = Pending \/ srv.bs = Pending) => srv.out = Pending

\* C2: when A's future succeeded with v, B.call was handed exactly v and the
\* AndThenFuture resolves to exactly what B's future resolves to, success or
\* failure, and is unresolved as long as B's future is.
C2_ResolvesToTailOutcome ==
    \A i \in 1..Len(futs) :
        LET f == futs[i] IN
        f.fut_a.st = "taken" =>
            /\ f.fut_a.out.tag = "Ok"
            /\ f.fut_b.st # "none"
            /\ f.fut_b.req = f.fut_a.out.val
            /\ f.out = f.fut_b.out
            /\ f.out \in {NoPoll} \cup BOutcomes(f.fut_a.out.val)

\* one call resolved to B's success and another one to B's failure
C2_Witness ==
    \E i, j \in 1..Len(futs) :
        /\ futs[i].fut_a.st = "taken"
        /\ futs[i].out = ReadyOk(BRsp(ARsp(futs[i].req)))
        /\ futs[j].fut_a.st = "taken"
        /\ futs[j].out.tag = "Err"

\* C3: when A's future failed with e, the AndThenFuture resolved to failure e
\* and B.call was not invoked for that request, however often it is polled.
C3_HeadFailureShortCircuits ==
    \A i \in 1..Len(futs) :
        LET f == futs[i] IN
        f.fut_a.st = "done" =>
            /\ f.fut_a.out.tag = "Err"
            /\ f.out = f.fut_a.out
            /\ f.fut_b.st = "none"
            /\ f.nb = 0
            /\ Count(b.log, ARsp(f.req)) = 0

\* a call that failed in A and was polled again after it had resolved
C3_Witness ==
    \E i \in 1..Len(futs) :
        /\ futs[i].fut_a.st = "done"
        /\ futs[i].out.tag = "Err"
        /\ futs[i].ret # futs[i].out

\* C4: each AndThenFuture invokes B.call at most once, and exactly once when
\* A's future succeeded, also when it is polled after it has resolved.
C4_TailCalledAtMostOnce ==
    \A i \in 1..Len(futs) :
        LET f == futs[i] IN
        /\ f.nb <= 1
        /\ f.nb = 1 <=> f.fut_a.st = "taken"
        /\ Count(b.log, ARsp(f.req)) = f.nb

\* a call that went through B, resolved, and was polled again afterwards
C4_Witness ==
    \E i \in 1..Len(futs) :
        /\ futs[i].nb = 1
        /\ is_ready(futs[i].out)
        /\ futs[i].ret # futs[i].out

\* C5: the combinator never invokes B.call unless B's most recent poll_ready
\* returned ready (the caller calls AndThen only after AndThen's poll_ready
\* returned ready: the guard of Call).  "Returned ready" is read as widely as
\* the code reads it, Poll::is_ready, so that a violation does not rest on a
\* readiness failure of B being taken for readiness (C6).
C5_TailCalledOnlyWhenReady ==
    [][Len(b'.log) > Len(b.log) => is_ready(b.last)]_vars

\* C6: when A.poll_ready or B.poll_ready reported a failure, AndThen's
\* poll_ready answered with a failure, not with Ready(Ok(())) or Pending.
C6_ReadinessErrorSurfaced ==
    (srv.a.tag = "Err" \/ srv.bs.tag = "Err") => srv.out.tag = "Err"

-----------------------------------------------------------------------------
(* Map, MapErr, FromErr: one wrapped service A and a function *)

\* The functions the combinators are built with are opaque: the value function
\* fn returns for x is x tagged with fn, so no function is the identity and
\* no two agree.
Apply(fn, x) == <<fn>> \o x
MapF(v) == Apply("f", v)             \* Map's F: FnMut(A::Response) -> Response
MapErrF(e) == Apply("g", e)          \* MapErr's F: Fn(A::Error) -> E
From(e) == Apply("E::from", e)       \* FromErr's E: From<A::Error>

\* Poll<Result<T, E>>::map_err(fn): [ret, fcalls], fcalls counting fn's calls
Poll_map_err(p, fn) ==
    IF p.tag = "Err" THEN [ret |-> ReadyErr(Apply(fn, p.val)), fcalls |-> 1]
    ELSE [ret |-> p, fcalls |-> 0]

\* Map::poll_ready answering ready without regard to the inner service
Map_poll_ready_eager(r) == [ret |-> ReadyOk(<<>>), fcalls |-> 0]

\* Map::poll_ready: self.service.poll_ready()
Map_poll_ready(r) == [ret |-> r, fcalls |-> 0]

\* MapFuture::try_poll with f applied before the `?`: a failure is mapped too
MapFuture_try_poll_maps_err(p) ==
    IF is_ready(p) THEN [ret |-> ReadyOk(MapF(p.val)), fcalls |-> 1]
    ELSE [ret |-> p, fcalls |-> 0]

\* MapFuture::try_poll, p being what self.fut.try_poll() returns:
\* Ready(resp) => Ready(Ok((self.f)(resp?))), Pending => Pending
MapFuture_try_poll(p) ==
    IF is_ready(p)
    THEN IF p.tag = "Err" THEN [ret |-> ReadyErr(p.val), fcalls |-> 0]
         ELSE [ret |-> ReadyOk(MapF(p.val)), fcalls |-> 1]
    ELSE [ret |-> p, fcalls |-> 0]

\* MapErr::poll_ready: self.service.poll_ready().map_err(&self.f)
MapErr_poll_ready(r) == Poll_map_err(r, "g")

\* MapErrFuture::try_poll without the map_err
MapErrFuture_try_poll_unmapped(p) == [ret |-> p, fcalls |-> 0]

\* MapErrFuture::try_poll: self.fut.try_poll().map_err(&self.f)
MapErrFuture_try_poll(p) == Poll_map_err(p, "g")

\* FromErr::poll_ready without the conversion
FromErr_poll_ready_unconverted(r) == [ret |-> r, fcalls |-> 0]

\* FromErr::poll_ready: self.service.poll_ready().map_err(E::from)
FromErr_poll_ready(r) == Poll_map_err(r, "E::from")

\* FromErrFuture::try_poll: self.fut.try_poll().map_err(E::from)
FromErrFuture_try_poll(p) == Poll_map_err(p, "E::from")

\* K names the combinator a specification runs
poll_ready(K, r) ==
    CASE K = "Map" -> Map_poll_ready(r)
      [] K = "MapErr" -> MapErr_poll_ready(r)
      [] K = "FromErr" -> FromErr_poll_ready(r)

try_poll(K, p) ==
    CASE K = "Map" -> MapFuture_try_poll(p)
      [] K = "MapErr" -> MapErrFuture_try_poll(p)
      [] K = "FromErr" -> FromErrFuture_try_poll(p)

\* Map::call, MapErr::call, FromErr::call: the future holds the future of
\* self.service.call(req) (and a clone of f).  in is what the inner future
\* returned at the last poll, ret what the future returned, nf the number of
\* calls of the function so far.
MFuture_new(req) ==
    [req |-> req, fut |-> NewSub(req), in |-> NoPoll, ret |-> NoPoll, nf |-> 0]

\* the wrapper's poll_ready: A answers anything a service may answer
MPollReady(K) ==
    \E r \in ReadyOuts :
        LET o == poll_ready(K, r) IN
        /\ msrv' = [a |-> r, out |-> o.ret, nf |-> o.fcalls]
        /\ UNCHANGED <<aux, srv, b, futs, mfuts, ifuts>>

\* the wrapper's call, by a caller that keeps Service's contract
MCall(K) ==
    /\ msrv.out = ReadyOk(<<>>)
    /\ Len(mfuts) < MaxCalls
    /\ mfuts' = Append(mfuts, MFuture_new(Req(Len(mfuts) + 1)))
    /\ UNCHANGED <<aux, srv, b, futs, msrv, ifuts>>

\* one poll of an unresolved future (Future's contract: no poll after Ready)
MPoll(K) ==
    \E i \in 1..Len(mfuts) :
        LET m == mfuts[i] IN
        /\ ~is_ready(m.ret)
        /\ \E p \in SubPoll(m.fut, AOutcomes(m.req)) :
              LET o == try_poll(K, p) IN
              mfuts' = [mfuts EXCEPT ![i] =
                           [m EXCEPT !.fut = SubAfter(m.fut, p), !.in = p,
                                     !.ret = o.ret, !.nf = m.nf + o.fcalls]]
        /\ UNCHANGED <<aux, srv, b, futs, msrv, ifuts>>

NextMap == MPollReady("Map") \/ MCall("Map") \/ MPoll("Map")
NextMapErr == MPollReady("MapErr") \/ MCall("MapErr") \/ MPoll("MapErr")
NextFromErr == MPollReady("FromErr") \/ MCall("FromErr") \/ MPoll("FromErr")

SpecMap == Init /\ [][NextMap]_vars
SpecMapErr == Init /\ [][NextMapErr]_vars
SpecFromErr == Init /\ [][NextFromErr]_vars

-----------------------------------------------------------------------------
(* MapInitErr: a factory A and a function of its InitError *)

\* MapInitErr's F: Fn(A::InitError) -> E
InitErrF(e) == Apply("h", e)

\* the service A's factory builds for configuration cfg
AService(cfg) == <<"A::Service", cfg>>

\* what the future of A.new_service(cfg) may resolve to
NewServiceOutcomes(cfg) ==
    {ReadyOk(AService(cfg))} \cup {ReadyErr(<<e>>) : e \in Errs}

\* MapInitErr::new_service: MapInitErrFuture::new(self.a.new_service(cfg),
\* self.f.clone()).  svcin is what the future of a call of A's service
\* returned, svcret what the same call of the built service returned.
MapInitErrFuture_new(cfg) ==
    [cfg |-> cfg, fut |-> NewSub(cfg), in |-> NoPoll, ret |-> NoPoll, nf |-> 0,
     svcin |-> NoPoll, svcret |-> NoPoll]

\* MapInitErrFuture::try_poll building a MapErr around the service, as
\* MapErrNewServiceFuture does, next to mapping the InitError
MapInitErrFuture_try_poll_wraps(p) ==
    IF p.tag = "Ok" THEN [ret |-> ReadyOk(<<"MapErr">> \o p.val), fcalls |-> 0]
    ELSE Poll_map_err(p, "h")

\* MapInitErrFuture::try_poll: self.fut.try_poll().map_err(&self.f)
MapInitErrFuture_try_poll(p) == Poll_map_err(p, "h")

\* What a call of the built service svc returns when the call of A's service
\* inside it returns p.  type Service = A::Service: the built service is A's
\* own; one wrapped in a MapErr of f would map p's error.
Serve(svc, p) ==
    IF Head(svc) = "MapErr" THEN Poll_map_err(p, "h")
    ELSE [ret |-> p, fcalls |-> 0]

\* factory.new_service(&cfg)
INewService ==
    \E cfg \in Cfgs :
        /\ Len(ifuts) < MaxCalls
        /\ ifuts' = Append(ifuts, MapInitErrFuture_new(cfg))
        /\ UNCHANGED <<aux, srv, b, futs, msrv, mfuts>>

\* one poll of an unresolved MapInitErrFuture
IPoll ==
    \E i \in 1..Len(ifuts) :
        LET m == ifuts[i] IN
        /\ ~is_ready(m.ret)
        /\ \E p \in SubPoll(m.fut, NewServiceOutcomes(m.cfg)) :
              LET o == MapInitErrFuture_try_poll(p) IN
              ifuts' = [ifuts EXCEPT ![i] =
                           [m EXCEPT !.fut = SubAfter(m.fut, p), !.in = p,
                                     !.ret = o.ret, !.nf = m.nf + o.fcalls]]
        /\ UNCHANGED <<aux, srv, b, futs, msrv, mfuts>>

\* a request handled by the service a MapInitErrFuture resolved to, A's
\* service answering with a response or a per-request Error
IServe ==
    \E i \in 1..Len(ifuts) :
        LET m == ifuts[i] IN
        /\ m.ret.tag = "Ok"
        /\ \E p \in AOutcomes(Req(i)) :
              LET o == Serve(m.ret.val, p) IN
              ifuts' = [ifuts EXCEPT ![i] =
                           [m EXCEPT !.svcin = p, !.svcret = o.ret,
                                     !.nf = m.nf + o.fcalls]]
        /\ UNCHANGED <<aux, srv, b, futs, msrv, mfuts>>

NextMapInitErr == INewService \/ IPoll \/ IServe

SpecMapInitErr == Init /\ [][NextMapInitErr]_vars

-----------------------------------------------------------------------------
(* Properties of Map, MapErr, FromErr and MapInitErr *)

\* C7 (SpecMap): a MapFuture is Pending exactly while A's future is; when A's
\* future resolved to success v it resolved to success f(v), f called once;
\* when A's future resolved to failure e it resolved to the same failure e
\* and f was not called.
C7_MapMapsSuccessOnly ==
    \A i \in 1..Len(mfuts) :
        LET m == mfuts[i] IN
        /\ m.fut.st = "pending" <=> m.ret \in {NoPoll, Pending}
        /\ m.fut.out.tag = "Ok" =>
              (m.ret = ReadyOk(MapF(m.fut.out.val)) /\ m.nf = 1)
        /\ m.fut.out.tag = "Err" => (m.ret = m.fut.out /\ m.nf = 0)

\* one call resolved to a mapped success, another to an unchanged failure
C7_Witness ==
    \E i, j \in 1..Len(mfuts) :
        /\ mfuts[i].ret = ReadyOk(MapF(ARsp(mfuts[i].req)))
        /\ mfuts[j].ret.tag = "Err"

\* C8 (SpecMapErr): a MapErrFuture resolves to failure f(e) when A's future
\* failed with e and to A's success unchanged, f not called, when it
\* succeeded; MapErr::poll_ready returns failure f(e) when A.poll_ready failed
\* with e and A's answer unchanged otherwise.
C8_MapErrMapsFailureOnly ==
    /\ \A i \in 1..Len(mfuts) :
          LET m == mfuts[i] IN
          /\ m.fut.out.tag = "Err" =>
                (m.ret = ReadyErr(MapErrF(m.fut.out.val)) /\ m.nf = 1)
          /\ m.fut.out.tag = "Ok" => (m.ret = m.fut.out /\ m.nf = 0)
          /\ m.fut.st = "pending" => (m.ret \in {NoPoll, Pending} /\ m.nf = 0)
    /\ IF msrv.a.tag = "Err"
       THEN msrv.out = ReadyErr(MapErrF(msrv.a.val)) /\ msrv.nf = 1
       ELSE msrv.out = msrv.a /\ msrv.nf = 0

\* a call failed and a call succeeded, and poll_ready failed
C8_Witness ==
    /\ msrv.a.tag = "Err"
    /\ \E i, j \in 1..Len(mfuts) :
          /\ mfuts[i].fut.out.tag = "Err"
          /\ mfuts[j].fut.out.tag = "Ok"

\* C9 (SpecFromErr): every failure e of A, from poll_ready and from the call
\* future, comes out as E::from(e); every success and Pending comes out
\* unchanged.
C9_FromErrConvertsEveryFailure ==
    /\ \A i \in 1..Len(mfuts) :
          LET m == mfuts[i] IN
          /\ m.fut.out.tag = "Err" => m.ret = ReadyErr(From(m.fut.out.val))
          /\ m.fut.out.tag = "Ok" => m.ret = m.fut.out
          /\ m.fut.st = "pending" => m.ret \in {NoPoll, Pending}
    /\ IF msrv.a.tag = "Err"
       THEN msrv.out = ReadyErr(From(msrv.a.val))
       ELSE msrv.out = msrv.a

\* poll_ready failed, one call failed at its first poll and another one at a
\* later poll or not yet
C9_Witness ==
    /\ msrv.a.tag = "Err"
    /\ \E i, j \in 1..Len(mfuts) :
          /\ mfuts[i].ret = ReadyErr(From(mfuts[i].fut.out.val))
          /\ mfuts[j].ret = Pending

\* C10 (SpecMapInitErr): the future of MapInitErr::new_service resolves to
\* exactly the service A's factory produced for cfg when construction
\* succeeded and to failure f(e) when it failed with InitError e; a request
\* handled by the built service returns what A's service returns, f not
\* applied.
C10_MapInitErrMapsInitErrorOnly ==
    \A i \in 1..Len(ifuts) :
        LET m == ifuts[i] IN
        /\ m.fut.out.tag = "Ok" =>
              (m.ret = ReadyOk(AService(m.cfg)) /\ m.nf = 0)
        /\ m.fut.out.tag = "Err" =>
              (m.ret = ReadyErr(InitErrF(m.fut.out.val)) /\ m.nf = 1)
        /\ m.fut.st = "pending" => m.ret \in {NoPoll, Pending}
        /\ m.svcin # NoPoll => m.svcret = m.svcin

\* one construction failed; another succeeded and the built service answered
\* a request with a per-request Error
C10_Witness ==
    \E i, j \in 1..Len(ifuts) :
        /\ ifuts[i].ret.tag = "Err"
        /\ ifuts[j].ret.tag = "Ok"
        /\ ifuts[j].svcin.tag = "Err"

-----------------------------------------------------------------------------
(* AndThenApply<A, B, F, Out>: srv, b and futs are the AndThenApply, its
   Cell<B> and its AndThenApplyFutures.  b.log is the arguments F was invoked
   with, each time together with the B behind the Cell. *)

\* F is opaque: the asynchronous value it returns for v resolves to a value
\* made of v or fails with an Out::Error
FRsp(v) == Apply("f", v)
FOutcomes(v) == {ReadyOk(FRsp(v))} \cup {ReadyErr(<<e>>) : e \in Errs}

\* Out::Error: Into<A::Error>
Into(e) == Apply("into", e)

\* AndThenApply::poll_ready without the two `?`: only is_ready() of each
\* answer is looked at, as AndThen::poll_ready does
AndThenApply_poll_ready_swallow(ra, rb) ==
    LET not_ready == ~is_ready(ra)
    IN  [ret |-> IF ~is_ready(rb) \/ not_ready THEN Pending ELSE ReadyOk(<<>>),
         basked |-> TRUE]

\* AndThenApply::poll_ready, given what A.poll_ready() and B.poll_ready()
\* return.  `?` returns a failure at once: B is not asked when A failed.
\* The result is the value returned and whether B.poll_ready() was invoked.
AndThenApply_poll_ready(ra, rb) ==
    IF ra.tag = "Err" THEN [ret |-> ra, basked |-> FALSE]
    ELSE IF rb.tag = "Err" THEN [ret |-> rb, basked |-> TRUE]
    ELSE LET not_ready == ~is_ready(ra)
         IN  [ret |-> IF ~is_ready(rb) \/ not_ready THEN Pending ELSE ReadyOk(<<>>),
              basked |-> TRUE]

RECURSIVE AndThenApplyFuture_poll(_, _, _)

\* AndThenApplyFuture::poll handing the failure of F's value on as it is
AndThenApplyFuture_poll_unconverted(f, pa, pb) ==
    IF f.fut_b.st # "none"
    THEN [fut |-> [f EXCEPT !.fut_b = SubAfter(f.fut_b, pb)],
          ret |-> pb, bcalls |-> <<>>]
    ELSE CASE pa.tag = "Ok" ->
                LET g == [f EXCEPT !.fut_a = [@ EXCEPT !.st = "taken", !.out = pa],
                                   !.fut_b = NewSub(pa.val)]
                    r == AndThenApplyFuture_poll(g, pa, pb)
                IN  [r EXCEPT !.bcalls = <<pa.val>> \o @]
           [] pa.tag = "Err" ->
                [fut |-> [f EXCEPT !.fut_a = SubAfter(f.fut_a, pa)],
                 ret |-> pa, bcalls |-> <<>>]
           [] OTHER -> [fut |-> f, ret |-> pa, bcalls |-> <<>>]

\* AndThenApplyFuture::poll.  pa is what fut_a.try_poll() returns if it is
\* polled, pb what the future of F's value returns if it is polled.  The
\* result is the future after the poll, the value returned, and the
\* responses F was invoked with during the poll (bcalls).
AndThenApplyFuture_poll(f, pa, pb) ==
    IF f.fut_b.st # "none"
    THEN \* if let Some(ref mut fut) = self.fut_b
         \*     { return fut.try_poll().map_err(|e| e.into()); }
         [fut |-> [f EXCEPT !.fut_b = SubAfter(f.fut_b, pb)],
          ret |-> Poll_map_err(pb, "into").ret, bcalls |-> <<>>]
    ELSE CASE pa.tag = "Ok" ->
                \* fut_a.take(); fut_b = Some(f(resp, b.get_mut())...); self.poll()
                LET g == [f EXCEPT !.fut_a = [@ EXCEPT !.st = "taken", !.out = pa],
                                   !.fut_b = NewSub(pa.val)]
                    r == AndThenApplyFuture_poll(g, pa, pb)
                IN  [r EXCEPT !.bcalls = <<pa.val>> \o @]
           [] pa.tag = "Err" ->
                [fut |-> [f EXCEPT !.fut_a = SubAfter(f.fut_a, pa)],
                 ret |-> pa, bcalls |-> <<>>]
           [] OTHER -> \* Pending, or the panic of a completed fut_a
                [fut |-> f, ret |-> pa, bcalls |-> <<>>]

\* srv.poll_ready() of the AndThenApply
ApplyPollReady ==
    \E ra \in ReadyOuts, rb \in ReadyOuts :
        LET r == AndThenApply_poll_ready(ra, rb) IN
        /\ srv' = [a |-> ra, bs |-> IF r.basked THEN rb ELSE NoPoll, out |-> r.ret]
        /\ b' = [b EXCEPT !.last = IF r.basked THEN rb ELSE @]
        /\ UNCHANGED <<aux, futs, msrv, mfuts, ifuts>>

\* srv.call(req) after a poll_ready that returned Ready(Ok(())): A.call(req)
\* is invoked at once, the Cells of B and F are cloned
ApplyCall ==
    /\ srv.out = ReadyOk(<<>>)
    /\ Len(futs) < MaxCalls
    /\ futs' = Append(futs, AndThenFuture_new(Req(Len(futs) + 1)))
    /\ UNCHANGED <<aux, srv, b, msrv, mfuts, ifuts>>

\* one poll of the i-th AndThenApplyFuture, before or after it has resolved
ApplyPoll ==
    \E i \in 1..Len(futs) :
        LET f == futs[i] IN
        /\ f.ret # Panic
        /\ \E pa \in (IF f.fut_b.st = "none"
                      THEN SubPoll(f.fut_a, AOutcomes(f.req)) ELSE {NoPoll}) :
           \E pb \in (IF f.fut_b.st # "none"
                      THEN SubPoll(f.fut_b, FOutcomes(f.fut_b.req))
                      ELSE IF pa.tag = "Ok"
                      THEN SubPoll(NewSub(pa.val), FOutcomes(pa.val))
                      ELSE {NoPoll}) :
              LET r == AndThenApplyFuture_poll(f, pa, pb) IN
              /\ futs' = [futs EXCEPT ![i] = Polled(f, r.fut, r.ret, Len(r.bcalls))]
              /\ b' = [b EXCEPT !.log = @ \o r.bcalls]
        /\ UNCHANGED <<aux, srv, msrv, mfuts, ifuts>>

NextAndThenApply == ApplyPollReady \/ ApplyCall \/ ApplyPoll

SpecAndThenApply == Init /\ [][NextAndThenApply]_vars

\* C11 (SpecAndThenApply): when A.call(r) succeeded with v, F has been invoked
\* exactly once, with v and the shared B, and the call future resolves to the
\* outcome of the value F returned, a failure converted with into(); when
\* A.call(r) failed with e, the call future resolves to e and F (and through
\* it B) has not been invoked for that call.
C11_ApplyFnChains ==
    \A i \in 1..Len(futs) :
        LET f == futs[i] IN
        /\ f.fut_a.st = "taken" =>
              /\ f.nb = 1
              /\ f.fut_b.req = f.fut_a.out.val
              /\ Count(b.log, f.fut_a.out.val) = 1
              /\ f.fut_b.out.tag = "Ok" => f.out = f.fut_b.out
              /\ f.fut_b.out.tag = "Err" => f.out = ReadyErr(Into(f.fut_b.out.val))
              /\ f.fut_b.st = "pending" => f.out = NoPoll
        /\ f.fut_a.st = "done" =>
              /\ f.out = f.fut_a.out
              /\ f.fut_a.out.tag = "Err"
              /\ f.nb = 0
              /\ f.fut_b = NoSub
              /\ Count(b.log, ARsp(f.req)) = 0
        /\ f.fut_a.st = "pending" => (f.nb = 0 /\ f.out = NoPoll)

\* one call whose F value failed and came out converted, one whose A failed,
\* both polled again after they resolved
C11_Witness ==
    \E i, j \in 1..Len(futs) :
        /\ futs[i].fut_b.out.tag = "Err"
        /\ futs[i].out = ReadyErr(Into(futs[i].fut_b.out.val))
        /\ futs[i].ret = Pending
        /\ futs[j].fut_a.out.tag = "Err"
        /\ futs[j].out = futs[j].fut_a.out
        /\ futs[j].ret = Panic

\* C24 (SpecAndThenApply): AndThenApply::poll_ready returns Ready(Ok(()))
\* exactly when A and B both reported ready, Pending exactly when neither
\* reported a failure and one of them was not ready, and the failure when
\* A.poll_ready or B.poll_ready reported one (B is not asked once A failed).
C24_ApplyReadiness ==
    srv.out # NoPoll =>
        /\ srv.out = ReadyOk(<<>>) <=>
              (srv.a = ReadyOk(<<>>) /\ srv.bs = ReadyOk(<<>>))
        /\ srv.out = Pending <=>
              (srv.a.tag # "Err" /\ srv.bs.tag # "Err" /\ Pending \in {srv.a, srv.bs})
        /\ srv.a.tag = "Err" => srv.out = srv.a
        /\ srv.bs.tag = "Err" => srv.out = srv.bs
        /\ srv.out.tag = "Err" <=> "Err" \in {srv.a.tag, srv.bs.tag}

\* A was not ready and B reported a failure, which poll_ready returned
C24_Witness ==
    /\ srv.a = Pending
    /\ srv.bs.tag = "Err"
    /\ srv.out = srv.bs

-----------------------------------------------------------------------------
(* AndThenTransform<T, A, B>: ifuts holds the AndThenTransformFutures *)

\* Option<T>
None == [some |-> FALSE, val |-> <<>>]
Some(v) == [some |-> TRUE, val |-> v]

\* the service B's factory builds for cfg, and what the future of
\* B.new_service(cfg) may resolve to
BService(cfg) == <<"B::Service", cfg>>
BNewServiceOutcomes(cfg) ==
    {ReadyOk(BService(cfg))} \cup {ReadyErr(<<e>>) : e \in Errs}

\* the transform-service T builds around service s, and what the future of
\* T.new_transform(s) may resolve to
TTransform(s) == <<"T::Transform">> \o s
NewTransformOutcomes(s) ==
    {ReadyOk(TTransform(s))} \cup {ReadyErr(<<e>>) : e \in Errs}

\* FromErr::new(a) and AndThen::new(a, b) as values
FromErr_new(a) == <<"FromErr">> \o a
AndThen_new(a, s) == <<"AndThen">> \o a \o s

\* AndThenTransform::new_service: both factories are started with cfg, the
\* transform constructor is not
AndThenTransformFuture_new(cfg) ==
    [cfg |-> cfg, fut_a |-> NewSub(cfg), fut_b |-> NewSub(cfg), fut_t |-> NoSub,
     a |-> None, t |-> None, ret |-> NoPoll]

\* AndThenTransformFuture::poll looking at a and t before it polls fut_t, so
\* that a transform-service yielded in a poll is seen by the next one only
AndThenTransformFuture_poll_late(m, pb, pa, pt) ==
    LET askb == m.fut_t.st = "none"
        m1 == IF askb
              THEN [m EXCEPT !.fut_b = SubAfter(@, pb),
                             !.fut_t = IF pb.tag = "Ok" THEN NewSub(pb.val) ELSE @]
              ELSE m
        aska == ~m1.a.some
        m2 == IF aska
              THEN [m1 EXCEPT !.fut_a = SubAfter(@, pa),
                              !.a = IF pa.tag = "Ok" THEN Some(pa.val) ELSE @]
              ELSE m1
        askt == m2.fut_t.st # "none"
        m3 == IF askt
              THEN [m2 EXCEPT !.fut_t = SubAfter(@, pt),
                              !.t = IF pt.tag = "Ok" THEN Some(pt.val) ELSE @]
              ELSE m2
    IN  IF askb /\ pb.tag \in {"Err", "Panic"} THEN [fut |-> m1, ret |-> pb]
        ELSE IF aska /\ pa.tag \in {"Err", "Panic"} THEN [fut |-> m2, ret |-> pa]
        ELSE IF m2.a.some /\ m2.t.some
        THEN [fut |-> [m2 EXCEPT !.a = None, !.t = None],
              ret |-> ReadyOk(AndThen_new(FromErr_new(m2.a.val), m2.t.val))]
        ELSE IF askt /\ pt.tag \in {"Err", "Panic"} THEN [fut |-> m3, ret |-> pt]
        ELSE [fut |-> m3, ret |-> Pending]

\* AndThenTransformFuture::poll taking successes only out of its sub-futures
\* (if let Poll::Ready(Ok(..)) = ..), a failure left unreported
AndThenTransformFuture_poll_swallow(m, pb, pa, pt) ==
    LET askb == m.fut_t.st = "none"
        m1 == IF askb
              THEN [m EXCEPT !.fut_b = SubAfter(@, pb),
                             !.fut_t = IF pb.tag = "Ok" THEN NewSub(pb.val) ELSE @]
              ELSE m
        aska == ~m1.a.some
        m2 == IF aska
              THEN [m1 EXCEPT !.fut_a = SubAfter(@, pa),
                              !.a = IF pa.tag = "Ok" THEN Some(pa.val) ELSE @]
              ELSE m1
        askt == m2.fut_t.st # "none"
        m3 == IF askt
              THEN [m2 EXCEPT !.fut_t = SubAfter(@, pt),
                              !.t = IF pt.tag = "Ok" THEN Some(pt.val) ELSE @]
              ELSE m2
    IN  IF m3.a.some /\ m3.t.some
        THEN [fut |-> [m3 EXCEPT !.a = None, !.t = None],
              ret |-> ReadyOk(AndThen_new(FromErr_new(m3.a.val), m3.t.val))]
        ELSE [fut |-> m3, ret |-> Pending]

\* AndThenTransformFuture::poll.  pb, pa and pt are what fut_b.try_poll(),
\* fut_a.poll() and fut_t's try_poll() return if they are polled.  `?`
\* returns Ready(Err(e)) at once; a panic of a sub-future unwinds the poll.
\* The result is the future after the poll and the value returned.
AndThenTransformFuture_poll(m, pb, pa, pt) ==
    LET \* if self.fut_t.is_none() { if let Poll::Ready(service) = fut_b.try_poll()
        \*     { self.fut_t = Some(self.t_cell.new_transform(service?)); } }
        askb == m.fut_t.st = "none"
        m1 == IF askb
              THEN [m EXCEPT !.fut_b = SubAfter(@, pb),
                             !.fut_t = IF pb.tag = "Ok" THEN NewSub(pb.val) ELSE @]
              ELSE m
        \* if self.a.is_none() { if let Poll::Ready(service) = fut_a.poll()
        \*     { self.a = Some(service?); } }
        aska == ~m1.a.some
        m2 == IF aska
              THEN [m1 EXCEPT !.fut_a = SubAfter(@, pa),
                              !.a = IF pa.tag = "Ok" THEN Some(pa.val) ELSE @]
              ELSE m1
        \* if let Some(ref mut fut) = self.fut_t { if let Poll::Ready(transform)
        \*     = fut.try_poll() { self.t = Some(transform?); } }
        \* (no look at self.t: a fut_t that has yielded is polled again)
        askt == m2.fut_t.st # "none"
        m3 == IF askt
              THEN [m2 EXCEPT !.fut_t = SubAfter(@, pt),
                              !.t = IF pt.tag = "Ok" THEN Some(pt.val) ELSE @]
              ELSE m2
    IN  IF askb /\ pb.tag \in {"Err", "Panic"} THEN [fut |-> m1, ret |-> pb]
        ELSE IF aska /\ pa.tag \in {"Err", "Panic"} THEN [fut |-> m2, ret |-> pa]
        ELSE IF askt /\ pt.tag \in {"Err", "Panic"} THEN [fut |-> m3, ret |-> pt]
        ELSE IF m3.a.some /\ m3.t.some
        THEN [fut |-> [m3 EXCEPT !.a = None, !.t = None],
              ret |-> ReadyOk(AndThen_new(FromErr_new(m3.a.val), m3.t.val))]
        ELSE [fut |-> m3, ret |-> Pending]

\* factory.new_service(cfg)
TNewService ==
    \E cfg \in Cfgs :
        /\ Len(ifuts) < MaxCalls
        /\ ifuts' = Append(ifuts, AndThenTransformFuture_new(cfg))
        /\ UNCHANGED <<aux, srv, b, futs, msrv, mfuts>>

\* one poll of an AndThenTransformFuture that has not resolved (and whose
\* last poll did not panic)
TPoll ==
    \E i \in 1..Len(ifuts) :
        LET m == ifuts[i] IN
        /\ m.ret \in {NoPoll, Pending}
        /\ \E pb \in (IF m.fut_t.st = "none"
                      THEN SubPoll(m.fut_b, BNewServiceOutcomes(m.cfg))
                      ELSE {NoPoll}) :
           \E pa \in (IF ~m.a.some
                      THEN SubPoll(m.fut_a, NewServiceOutcomes(m.cfg))
                      ELSE {NoPoll}) :
           \E pt \in (IF m.fut_t.st # "none"
                      THEN SubPoll(m.fut_t, NewTransformOutcomes(m.fut_t.req))
                      ELSE IF pb.tag = "Ok"
                      THEN SubPoll(NewSub(pb.val), NewTransformOutcomes(pb.val))
                      ELSE {NoPoll}) :
              LET r == AndThenTransformFuture_poll(m, pb, pa, pt) IN
              ifuts' = [ifuts EXCEPT ![i] = [r.fut EXCEPT !.ret = r.ret]]
        /\ UNCHANGED <<aux, srv, b, futs, msrv, mfuts>>

NextAndThenTransform == TNewService \/ TPoll

SpecAndThenTransform == Init /\ [][NextAndThenTransform]_vars

\* C12 (SpecAndThenTransform): the future resolves to a service only when A's
\* factory has yielded the head service and T's constructor, run against the
\* service B's factory built, has yielded the transform-service; a poll
\* returns Pending only while one of the two has not yielded; the service is
\* AndThen(FromErr(A's service), T's transform-service).
C12_ResolvesWhenBothYielded ==
    \A i \in 1..Len(ifuts) :
        LET m == ifuts[i] IN
        /\ m.ret.tag = "Ok" =>
              /\ m.fut_a.out = ReadyOk(AService(m.cfg))
              /\ m.fut_b.out = ReadyOk(BService(m.cfg))
              /\ m.fut_t.req = m.fut_b.out.val
              /\ m.fut_t.out = ReadyOk(TTransform(m.fut_t.req))
              /\ m.ret.val = AndThen_new(FromErr_new(m.fut_a.out.val), m.fut_t.out.val)
        /\ m.ret = Pending =>
              ~(m.fut_a.out.tag = "Ok" /\ m.fut_t.out.tag = "Ok")
        /\ m.ret = NoPoll =>
              (m.fut_a.st = "pending" /\ m.fut_b.st = "pending" /\ m.fut_t = NoSub)

\* one future has resolved; the last poll of another returned Pending with
\* the transform-service yielded and the head service not
C12_Witness ==
    \E i, j \in 1..Len(ifuts) :
        /\ ifuts[i].ret.tag = "Ok"
        /\ ifuts[j].ret = Pending
        /\ ifuts[j].t.some
        /\ ~ifuts[j].a.some

\* C13 (SpecAndThenTransform): whatever the order in which A's factory, B's
\* factory and T's constructor succeed and however many polls lie between,
\* the future ends resolved to the one service built from A's service for
\* cfg and T's transform-service around B's service for cfg: no poll unwinds
\* while none of the three has failed, and once the head service and the
\* transform-service have both been yielded the future has resolved to it.
C13_EveryOrderResolvesToSameService ==
    \A i \in 1..Len(ifuts) :
        LET m == ifuts[i] IN
        /\ m.ret.tag = "Ok" =>
              m.ret.val = AndThen_new(FromErr_new(AService(m.cfg)),
                                      TTransform(BService(m.cfg)))
        /\ (m.fut_a.out.tag # "Err" /\ m.fut_b.out.tag # "Err"
              /\ m.fut_t.out.tag # "Err") => m.ret # Panic
        /\ (m.fut_a.out.tag = "Ok" /\ m.fut_t.out.tag = "Ok") => m.ret.tag = "Ok"

-----------------------------------------------------------------------------
(* new_apply_cfg: ApplyConfigNewService<F, C, T, R, S>.  cells[1] is the
   Cell<T> of the inner factory, its content the new_service(&()) calls made
   on it; cells[2] is the Cell<F>, its content the (cfg, service) pairs F was
   invoked with.  objs is the factory and its clones, ifuts the
   ApplyConfigNewServiceFuts. *)

\* the number of factory values (the original and its clones)
MaxObjs == 2

\* the service the inner factory builds at its n-th new_service(&()) call
SvcNames == <<"s1", "s2", "s3", "s4">>
TService(n) == <<"T::Service", SvcNames[n]>>
\* what the inner factory's future for service s may resolve to
TNewServiceOutcomes(s) == {ReadyOk(s)} \cup {ReadyErr(<<e>>) : e \in Errs}

\* the asynchronous value R that F returns for (cfg, srv) resolves to an
\* R::Ok made of them or fails; IntoService::into_service of a value
ROk(cfg, s) == <<"R::Ok", cfg>> \o s
ROutcomes(cfg, s) == {ReadyOk(ROk(cfg, s))} \cup {ReadyErr(<<e>>) : e \in Errs}
into_service(v) == <<"into_service">> \o v

\* Cell::clone: another handle on the same content
Cell_clone(h) == h

\* #[derive]-like Clone of ApplyConfigNewService
ApplyConfigNewService_clone(o) == [f |-> Cell_clone(o.f), srv |-> Cell_clone(o.srv)]

\* ApplyConfigNewService::new_service(cfg) on factory value o, the inner
\* factory having been asked n times before: it is asked again, with &().
\* rdy is what srv.poll_ready() returned last, nf the number of times this
\* future has invoked F.
ApplyConfigNewServiceFut_new(o, cfg, n) ==
    [cfg |-> cfg, f |-> Cell_clone(o.f), fut |-> NoSub, srv |-> None,
     srv_fut |-> NewSub(TService(n + 1)), ret |-> NoPoll, rdy |-> NoPoll,
     nf |-> 0]

\* ApplyConfigNewServiceFut::poll.  ps, pr and pf are what srv_fut.try_poll(),
\* srv.poll_ready() and fut.try_poll() return if they are invoked.  The
\* result is the future after the poll and the value returned.
ApplyConfigNewServiceFut_poll(m, ps, pr, pf) ==
    LET asks == m.srv_fut.st = "pending"
        \* Ready(srv) => { let srv = srv?; srv_fut.take(); self.srv = Some(srv);
        \*                 return self.try_poll(); }
        m1 == IF asks
              THEN IF ps.tag = "Ok"
                   THEN [m EXCEPT !.srv_fut = [@ EXCEPT !.st = "taken", !.out = ps],
                                  !.srv = Some(ps.val)]
                   ELSE [m EXCEPT !.srv_fut = SubAfter(@, ps)]
              ELSE m
        \* else if let Some(ref mut srv) = self.srv { match srv.poll_ready() {
        \*   Pending => Pending,
        \*   Ready(_) => { self.fut = Some(f(&self.cfg, srv)...); return self.try_poll() } } }
        askr == m1.fut.st = "none" /\ m1.srv.some
        m2 == IF askr
              THEN IF is_ready(pr)
                   THEN [m1 EXCEPT !.rdy = pr, !.nf = @ + 1,
                                   !.fut = NewSub(<<m1.cfg>> \o m1.srv.val)]
                   ELSE [m1 EXCEPT !.rdy = pr]
              ELSE m1
        \* if let Some(ref mut fut) = self.fut
        \*   { Poll::Ready(Ok(ready!(fut.try_poll()).into_service())) }
        askf == m2.fut.st # "none"
        m3 == IF askf THEN [m2 EXCEPT !.fut = SubAfter(@, pf)] ELSE m2
    IN  IF asks /\ ps.tag # "Ok" THEN [fut |-> m1, ret |-> ps]
        ELSE IF askf
        THEN [fut |-> m3,
              ret |-> CASE pf.tag = "Ok" -> ReadyOk(into_service(pf.val))
                        [] pf.tag = "Err" -> ReadyOk(into_service(<<"Err">> \o pf.val))
                        [] OTHER -> pf]
        ELSE [fut |-> m2, ret |-> Pending]

InitNewApplyCfg ==
    /\ srv = IdleSrv
    /\ b = IdleB
    /\ futs = NoFuts
    /\ msrv = IdleM
    /\ mfuts = NoFuts
    /\ ifuts = NoFuts
    /\ cells = << <<>>, <<>> >>
    /\ objs = <<[f |-> 2, srv |-> 1]>>
    /\ jobs = <<>>

\* factory.clone()
NClone ==
    \E c \in 1..Len(objs) :
        /\ Len(objs) < MaxObjs
        /\ objs' = Append(objs, ApplyConfigNewService_clone(objs[c]))
        /\ UNCHANGED <<srv, b, futs, msrv, mfuts, ifuts, cells, jobs>>

\* new_service(cfg) on the factory or a clone: self.srv.get_ref().new_service(&())
NNewService ==
    \E c \in 1..Len(objs), cfg \in Cfgs :
        LET o == objs[c] IN
        /\ Len(ifuts) < MaxCalls
        /\ ifuts' = Append(ifuts, ApplyConfigNewServiceFut_new(o, cfg, Len(cells[o.srv])))
        /\ cells' = [cells EXCEPT ![o.srv] = Append(@, "new_service")]
        /\ UNCHANGED <<srv, b, futs, msrv, mfuts, objs, jobs>>

\* one poll of an ApplyConfigNewServiceFut that has not resolved
NPoll ==
    \E i \in 1..Len(ifuts) :
        LET m == ifuts[i] IN
        /\ m.ret \in {NoPoll, Pending}
        /\ \E ps \in (IF m.srv_fut.st = "pending"
                      THEN SubPoll(m.srv_fut, TNewServiceOutcomes(m.srv_fut.req))
                      ELSE {NoPoll}) :
           \E pr \in (IF m.fut.st = "none" THEN ReadyOuts ELSE {NoPoll}) :
           \E pf \in (LET s == IF m.srv.some THEN m.srv.val ELSE ps.val
                      IN  IF m.fut.st # "none"
                          THEN SubPoll(m.fut, ROutcomes(m.cfg, s))
                          ELSE SubPoll(NewSub(<<>>), ROutcomes(m.cfg, s))) :
              LET r == ApplyConfigNewServiceFut_poll(m, ps, pr, pf) IN
              /\ ifuts' = [ifuts EXCEPT ![i] = [r.fut EXCEPT !.ret = r.ret]]
              /\ cells' = [cells EXCEPT ![m.f] =
                              IF r.fut.nf > m.nf THEN Append(@, r.fut.fut.req) ELSE @]
        /\ UNCHANGED <<srv, b, futs, msrv, mfuts, objs, jobs>>

NextNewApplyCfg == NClone \/ NNewService \/ NPoll

SpecNewApplyCfg == InitNewApplyCfg /\ [][NextNewApplyCfg]_vars

\* C14 (SpecNewApplyCfg): the inner factory is asked to build its service only
\* once, at the first new_service call on the factory or a clone; the
\* function of every later call is applied to that already-built service.
C14_InnerServiceBuiltOnce ==
    /\ Len(cells[1]) <= 1
    /\ \A i \in 1..Len(ifuts) :
          ifuts[i].nf > 0 => ifuts[i].fut.req = <<ifuts[i].cfg>> \o TService(1)

\* C28 (SpecNewApplyCfg): an ApplyConfigNewServiceFut goes through building
\* the inner service, awaiting its readiness, invoking F and done, in that
\* order: F is invoked at most once, and only with the inner service built and
\* after its poll_ready returned Ready(Ok(())); while poll_ready returns
\* Pending the poll returns Pending and F has not been invoked.
C28_FunctionAfterReadiness ==
    \A i \in 1..Len(ifuts) :
        LET m == ifuts[i] IN
        /\ m.nf <= 1
        /\ m.srv.some <=> m.srv_fut.st = "taken"
        /\ m.rdy # NoPoll => m.srv.some
        /\ m.nf = 1 <=> m.fut.st # "none"
        /\ m.nf = 1 => (m.srv.some /\ m.rdy = ReadyOk(<<>>))
        /\ m.rdy = Pending => (m.ret = Pending /\ m.nf = 0)
        /\ m.ret.tag = "Ok" => m.fut.st = "done"

\* C29 (SpecNewApplyCfg): when poll_ready of the built inner service returned
\* a failure, the ApplyConfigNewServiceFut resolved to a failure and F was not
\* invoked.
C29_ReadinessFailureSurfaced ==
    \A i \in 1..Len(ifuts) :
        LET m == ifuts[i] IN
        m.rdy.tag = "Err" => (m.ret.tag = "Err" /\ m.nf = 0)

\* C30 (SpecNewApplyCfg): when the inner factory's future failed, the
\* ApplyConfigNewServiceFut resolved to that failure and F was never invoked;
\* when the future of the value F returned failed, it resolved to that
\* failure; in neither case did it resolve to a service.
C30_ConstructionFailureSurfaced ==
    \A i \in 1..Len(ifuts) :
        LET m == ifuts[i] IN
        /\ m.srv_fut.out.tag = "Err" =>
              (m.ret = m.srv_fut.out /\ m.nf = 0 /\ ~m.srv.some)
        /\ m.fut.out.tag = "Err" => m.ret = m.fut.out
        /\ "Err" \in {m.srv_fut.out.tag, m.fut.out.tag} => m.ret.tag # "Ok"

-----------------------------------------------------------------------------
(* apply_cfg: ApplyConfigService<F, C, T, R, S>.  cells[1] is the Cell<T> of
   the service, its content the cfgs F was handed it with; cells[2] is the
   Cell<F>, its content the (cfg, service cell) pairs F was invoked with.
   objs is the factory and its clones, ifuts the FnNewServiceConfigFuts. *)

\* the value behind Cell handle h, as F sees it
CellNames == <<"c1", "c2", "c3", "c4">>
get_mut(h) == <<CellNames[h]>>

\* Clone of ApplyConfigService
ApplyConfigService_clone(o) == [f |-> Cell_clone(o.f), srv |-> Cell_clone(o.srv)]

\* ApplyConfigService::new_service leaving the function to the first poll
ApplyConfigService_new_service_lazy(o, cfg) ==
    [fut |-> [cfg |-> cfg, fut |-> NewSub(<<cfg>> \o get_mut(o.srv)),
              ret |-> NoPoll, nf |-> 0],
     fcalls |-> <<>>]

\* ApplyConfigService::new_service(cfg) on factory value o:
\* FnNewServiceConfigFut { fut: (f)(cfg, srv.get_mut_unsafe()).into_try_future() }.
\* The result is the future and the arguments F was invoked with; nf is the
\* number of invocations of F made for the future.
ApplyConfigService_new_service(o, cfg) ==
    [fut |-> [cfg |-> cfg, fut |-> NewSub(<<cfg>> \o get_mut(o.srv)),
              ret |-> NoPoll, nf |-> 1],
     fcalls |-> << <<cfg>> \o get_mut(o.srv) >>]

\* FnNewServiceConfigFut::poll, p being what self.fut.try_poll() returns:
\* Poll::Ready(Ok(ready!(self.fut.try_poll()?).into_service()))
FnNewServiceConfigFut_poll(p) ==
    CASE p.tag = "Ok" -> ReadyOk(into_service(p.val))
      [] OTHER -> p

InitApplyCfg ==
    /\ srv = IdleSrv
    /\ b = IdleB
    /\ futs = NoFuts
    /\ msrv = IdleM
    /\ mfuts = NoFuts
    /\ ifuts = NoFuts
    /\ cells = << <<>>, <<>> >>
    /\ objs = <<[f |-> 2, srv |-> 1]>>
    /\ jobs = <<>>

\* factory.clone()
GClone ==
    \E c \in 1..Len(objs) :
        /\ Len(objs) < MaxObjs
        /\ objs' = Append(objs, ApplyConfigService_clone(objs[c]))
        /\ UNCHANGED <<srv, b, futs, msrv, mfuts, ifuts, cells, jobs>>

\* new_service(cfg) on the factory or a clone
GNewService ==
    \E c \in 1..Len(objs), cfg \in Cfgs :
        LET o == objs[c]
            r == ApplyConfigService_new_service(o, cfg)
        IN  /\ Len(ifuts) < MaxCalls
            /\ ifuts' = Append(ifuts, r.fut)
            /\ cells' = [h \in DOMAIN cells |->
                            IF r.fcalls = <<>> THEN cells[h]
                            ELSE IF h = o.f THEN cells[h] \o r.fcalls
                            ELSE IF h = o.srv THEN Append(cells[h], cfg)
                            ELSE cells[h]]
            /\ UNCHANGED <<srv, b, futs, msrv, mfuts, objs, jobs>>

\* one poll of a FnNewServiceConfigFut that has not resolved
GPoll ==
    \E i \in 1..Len(ifuts) :
        LET m == ifuts[i] IN
        /\ ~is_ready(m.ret)
        /\ \E p \in SubPoll(m.fut, ROutcomes(m.cfg, Tail(m.fut.req))) :
              ifuts' = [ifuts EXCEPT ![i] =
                           [m EXCEPT !.fut = SubAfter(m.fut, p),
                                     !.ret = FnNewServiceConfigFut_poll(p)]]
        /\ UNCHANGED <<srv, b, futs, msrv, mfuts, objs, cells, jobs>>

NextApplyCfg == GClone \/ GNewService \/ GPoll

SpecApplyCfg == InitApplyCfg /\ [][NextApplyCfg]_vars

\* C15 (SpecApplyCfg): every new_service(cfg) call has invoked the
\* configuration function exactly once by the time it returns, polled or not,
\* with that cfg and with the one service instance that the factory and all
\* its clones share; the returned future resolves to the outcome of the
\* function's value, a success converted into a service.
C15_FunctionCalledInNewService ==
    /\ \A c \in 1..Len(objs) : objs[c].srv = objs[1].srv
    /\ Len(cells[objs[1].f]) = Len(ifuts)
    /\ Len(cells[objs[1].srv]) = Len(ifuts)
    /\ \A i \in 1..Len(ifuts) :
          LET m == ifuts[i] IN
          /\ m.nf = 1
          /\ cells[objs[1].f][i] = <<m.cfg>> \o get_mut(objs[1].srv)
          /\ cells[objs[1].srv][i] = m.cfg
          /\ m.fut.out.tag = "Ok" =>
                m.ret = ReadyOk(into_service(ROk(m.cfg, get_mut(objs[1].srv))))
          /\ m.fut.out.tag = "Err" => m.ret = m.fut.out
          /\ m.fut.st = "pending" => m.ret \in {NoPoll, Pending}

\* a clone exists; two calls with different cfgs: one future not polled yet,
\* the other resolved to a service
C15_Witness ==
    /\ Len(objs) = 2
    /\ \E i, j \in 1..Len(ifuts) :
          /\ ifuts[i].ret = NoPoll
          /\ ifuts[j].ret.tag = "Ok"
          /\ ifuts[i].cfg # ifuts[j].cfg

-----------------------------------------------------------------------------
(* AndThen<A, B> and its clones.  objs is the AndThen values alive: a is the
   state of the head service the value owns (the number of A.call it has
   handled, a clone starting from its original's), b the handle of its
   Cell<B>, out what its last poll_ready returned.  cells[h] is the state of
   the B behind handle h (the number of B.call it has handled).  futs is the
   AndThenFutures in flight, each with the Cell handle it was given. *)

\* the sum of g(i) over i in 1..n, for a sequence g of numbers
RECURSIVE Sum(_)
Sum(q) == IF q = <<>> THEN 0 ELSE q[1] + Sum(Tail(q))

\* AndThen::clone giving the clone a Cell of its own, h, holding a copy of B
AndThen_clone_deep(o, h) == [a |-> o.a, b |-> h, out |-> NoPoll]

\* AndThen::clone: AndThen { a: self.a.clone(), b: self.b.clone() }.  h is the
\* next free Cell handle, which the clone does not use.
AndThen_clone(o, h) == [a |-> o.a, b |-> Cell_clone(o.b), out |-> NoPoll]

\* AndThen::call: AndThenFuture::new(self.a.call(req), self.b.clone())
AndThen_call(o, req) == [b |-> Cell_clone(o.b), f |-> AndThenFuture_new(req)]

InitAndThenClone ==
    /\ srv = IdleSrv
    /\ b = IdleB
    /\ futs = NoFuts
    /\ msrv = IdleM
    /\ mfuts = NoFuts
    /\ ifuts = NoFuts
    /\ cells = <<0>>
    /\ objs = <<[a |-> 0, b |-> 1, out |-> NoPoll]>>
    /\ jobs = <<>>

\* objs[c].clone()
CClone ==
    \E c \in 1..Len(objs) :
        LET o == AndThen_clone(objs[c], Len(cells) + 1) IN
        /\ Len(objs) < MaxObjs
        /\ objs' = Append(objs, o)
        /\ cells' = IF o.b > Len(cells) THEN Append(cells, cells[objs[c].b]) ELSE cells
        /\ UNCHANGED <<srv, b, futs, msrv, mfuts, ifuts, jobs>>

\* objs[c].poll_ready()
CPollReady ==
    \E c \in 1..Len(objs) :
    \E out \in {AndThen_poll_ready(ra, rb) : ra \in ReadyOuts, rb \in ReadyOuts} :
        /\ objs' = [objs EXCEPT ![c].out = out]
        /\ UNCHANGED <<srv, b, futs, msrv, mfuts, ifuts, cells, jobs>>

\* objs[c].call(req) after a poll_ready of it that returned Ready(Ok(()))
CCall ==
    \E c \in 1..Len(objs) :
        /\ objs[c].out = ReadyOk(<<>>)
        /\ Len(futs) < MaxCalls
        /\ futs' = Append(futs, AndThen_call(objs[c], Req(Len(futs) + 1)))
        /\ objs' = [objs EXCEPT ![c].a = @ + 1]
        /\ UNCHANGED <<srv, b, msrv, mfuts, ifuts, cells, jobs>>

\* one poll of an AndThenFuture that has not resolved
CPoll ==
    \E i \in 1..Len(futs) :
        LET f == futs[i].f IN
        /\ f.ret \in {NoPoll, Pending}
        /\ \E r \in UNION {{AndThenFuture_poll(f, pa, pb) :
                                 pb \in (IF f.fut_b.st # "none"
                                         THEN SubPoll(f.fut_b, BOutcomes(f.fut_b.req))
                                         ELSE IF pa.tag = "Ok"
                                         THEN SubPoll(NewSub(pa.val), BOutcomes(pa.val))
                                         ELSE {NoPoll})} :
                               pa \in (IF f.fut_b.st = "none"
                                       THEN SubPoll(f.fut_a, AOutcomes(f.req))
                                       ELSE {NoPoll})} :
              /\ futs' = [futs EXCEPT ![i].f = Polled(f, r.fut, r.ret, Len(r.bcalls))]
              /\ cells' = [cells EXCEPT ![futs[i].b] = @ + Len(r.bcalls)]
        /\ UNCHANGED <<srv, b, msrv, mfuts, ifuts, objs, jobs>>

NextAndThenClone == CClone \/ CPollReady \/ CCall \/ CPoll

SpecAndThenClone == InitAndThenClone /\ [][NextAndThenClone]_vars

\* every AndThen value and every call future holds the same Cell<B>, and the
\* B seen through any of them has handled the B.calls of all the futures
C16_SharedTail ==
    /\ \A c \in 1..Len(objs) : objs[c].b = objs[1].b
    /\ \A i \in 1..Len(futs) : futs[i].b = objs[1].b
    /\ \A c \in 1..Len(objs) :
          cells[objs[c].b] = Sum([i \in 1..Len(futs) |-> futs[i].f.nb])

\* a step changes the head service state of at most one AndThen value
C16_OwnHead ==
    \A c, d \in 1..Len(objs) :
        (c # d /\ objs'[c].a # objs[c].a) => objs'[d].a = objs[d].a

\* C16 (SpecAndThenClone): the clones of an AndThen and all their in-flight
\* call futures operate on the same tail service B, so that a B.call made
\* through one is seen through the others, whereas each clone has a head
\* service A of its own: a call on one clone leaves the A of the others as it
\* was.
C16_ClonesShareTailOnly == []C16_SharedTail /\ [][C16_OwnHead]_vars

\* the original and its clone have handled one call each, and the B behind
\* the original's Cell has handled the B.call of both
C16_Witness ==
    /\ Len(objs) = 2
    /\ objs[1].a = 1
    /\ objs[2].a = 1
    /\ Len(futs) = 2
    /\ futs[1].f.nb = 1
    /\ futs[2].f.nb = 1
    /\ cells[objs[1].b] = 2

-----------------------------------------------------------------------------
(* AndThenApplyNewService<A, B, F, Out>.  cells[1] is the factory's Cell<F>,
   its content the state F captures (the number of times it has run); the
   Cell<B> of every produced service is allocated after it.  ifuts is the
   AndThenApplyNewServiceFutures, objs the AndThenApply services they have
   produced (a: the number of A.call the head has handled, b and f: Cell
   handles), futs the AndThenApplyFutures of the calls made on them (s: the
   service called). *)

\* AndThenApplyNewService::new_service: both factories are started with cfg,
\* the Cell of F is cloned
AndThenApplyNewServiceFuture_new(cfg) ==
    [cfg |-> cfg, f |-> Cell_clone(1), fut_a |-> NewSub(cfg), fut_b |-> NewSub(cfg),
     a |-> None, b |-> None, ret |-> NoPoll]

\* AndThenApplyNewServiceFuture::poll handing every service the Cell<B> of
\* the first one
AndThenApplyNewServiceFuture_poll_oneb(m, pa, pb, h) ==
    LET aska == ~m.a.some
        m1 == IF aska
              THEN [m EXCEPT !.fut_a = SubAfter(@, pa),
                             !.a = IF pa.tag = "Ok" THEN Some(pa.val) ELSE @]
              ELSE m
        askb == ~m1.b.some
        m2 == IF askb
              THEN [m1 EXCEPT !.fut_b = SubAfter(@, pb),
                              !.b = IF pb.tag = "Ok" THEN Some(pb.val) ELSE @]
              ELSE m1
    IN  IF aska /\ pa.tag \in {"Err", "Panic"} THEN [fut |-> m1, ret |-> pa, svc |-> None]
        ELSE IF askb /\ pb.tag \in {"Err", "Panic"} THEN [fut |-> m2, ret |-> pb, svc |-> None]
        ELSE IF m2.a.some /\ m2.b.some
        THEN [fut |-> [m2 EXCEPT !.a = None, !.b = None],
              ret |-> ReadyOk(<<"AndThenApply">> \o m2.a.val \o m2.b.val),
              svc |-> Some([a |-> 0, b |-> 2, f |-> Cell_clone(m2.f)])]
        ELSE [fut |-> m2, ret |-> Pending, svc |-> None]

\* AndThenApplyNewServiceFuture::poll.  pa and pb are what fut_a.try_poll()
\* and fut_b.try_poll() return if they are polled, h the handle Cell::new
\* allocates.  The result is the future after the poll, the value returned
\* and the AndThenApply built, if one is.
AndThenApplyNewServiceFuture_poll(m, pa, pb, h) ==
    LET \* if self.a.is_none() { if let Poll::Ready(service) = fut_a.try_poll()
        \*     { self.a = Some(service?); } }
        aska == ~m.a.some
        m1 == IF aska
              THEN [m EXCEPT !.fut_a = SubAfter(@, pa),
                             !.a = IF pa.tag = "Ok" THEN Some(pa.val) ELSE @]
              ELSE m
        \* the same for b
        askb == ~m1.b.some
        m2 == IF askb
              THEN [m1 EXCEPT !.fut_b = SubAfter(@, pb),
                              !.b = IF pb.tag = "Ok" THEN Some(pb.val) ELSE @]
              ELSE m1
    IN  IF aska /\ pa.tag \in {"Err", "Panic"} THEN [fut |-> m1, ret |-> pa, svc |-> None]
        ELSE IF askb /\ pb.tag \in {"Err", "Panic"} THEN [fut |-> m2, ret |-> pb, svc |-> None]
        ELSE IF m2.a.some /\ m2.b.some
        THEN \* AndThenApply { f: self.f.clone(), a: a.take().unwrap(),
             \*                b: Cell::new(b.take().unwrap()) }
             [fut |-> [m2 EXCEPT !.a = None, !.b = None],
              ret |-> ReadyOk(<<"AndThenApply">> \o m2.a.val \o m2.b.val),
              svc |-> Some([a |-> 0, b |-> h, f |-> Cell_clone(m2.f)])]
        ELSE [fut |-> m2, ret |-> Pending, svc |-> None]

InitApplyFactory ==
    /\ srv = IdleSrv
    /\ b = IdleB
    /\ futs = NoFuts
    /\ msrv = IdleM
    /\ mfuts = NoFuts
    /\ ifuts = NoFuts
    /\ cells = <<0>>
    /\ objs = <<>>
    /\ jobs = <<>>

\* the cfg of the n-th new_service call; configurations are opaque to the
\* factory, so successive calls alternate between the two
Cfg(n) == IF n % 2 = 1 THEN "cfg1" ELSE "cfg2"

\* factory.new_service(cfg)
FNewService ==
    /\ Len(ifuts) < MaxObjs
    /\ ifuts' = Append(ifuts, AndThenApplyNewServiceFuture_new(Cfg(Len(ifuts) + 1)))
    /\ UNCHANGED <<srv, b, futs, msrv, mfuts, cells, objs, jobs>>

\* one poll of an AndThenApplyNewServiceFuture that has not resolved
FPoll ==
    \E i \in 1..Len(ifuts) :
        LET m == ifuts[i] IN
        /\ m.ret \in {NoPoll, Pending}
        /\ \E r \in {AndThenApplyNewServiceFuture_poll(m, pa, pb, Len(cells) + 1) :
                         pa \in (IF ~m.a.some
                                 THEN SubPoll(m.fut_a, NewServiceOutcomes(m.cfg))
                                 ELSE {NoPoll}),
                         pb \in (IF ~m.b.some
                                 THEN SubPoll(m.fut_b, BNewServiceOutcomes(m.cfg))
                                 ELSE {NoPoll})} :
              /\ ifuts' = [ifuts EXCEPT ![i] = [r.fut EXCEPT !.ret = r.ret]]
              /\ objs' = IF r.svc.some THEN Append(objs, r.svc.val) ELSE objs
              /\ cells' = IF r.svc.some /\ r.svc.val.b > Len(cells)
                          THEN Append(cells, 0) ELSE cells
        /\ UNCHANGED <<srv, b, futs, msrv, mfuts, jobs>>

\* objs[s].call(req): A.call(req) is invoked at once, the Cells are cloned
FCall ==
    \E s \in 1..Len(objs) :
        /\ Len(futs) < MaxCalls
        /\ futs' = Append(futs, [s |-> s, b |-> Cell_clone(objs[s].b),
                                 f |-> Cell_clone(objs[s].f),
                                 fut |-> AndThenFuture_new(Req(Len(futs) + 1))])
        /\ objs' = [objs EXCEPT ![s].a = @ + 1]
        /\ UNCHANGED <<srv, b, msrv, mfuts, ifuts, cells, jobs>>

\* one poll of an AndThenApplyFuture that has not resolved: when A's future
\* yields a response, F runs (its captured state changes) and calls B
FCallPoll ==
    \E i \in 1..Len(futs) :
        LET f == futs[i].fut IN
        /\ f.ret \in {NoPoll, Pending}
        /\ \E r \in UNION {{AndThenApplyFuture_poll(f, pa, pb) :
                                 pb \in (IF f.fut_b.st # "none"
                                         THEN SubPoll(f.fut_b, FOutcomes(f.fut_b.req))
                                         ELSE IF pa.tag = "Ok"
                                         THEN SubPoll(NewSub(pa.val), FOutcomes(pa.val))
                                         ELSE {NoPoll})} :
                               pa \in (IF f.fut_b.st = "none"
                                       THEN SubPoll(f.fut_a, AOutcomes(f.req))
                                       ELSE {NoPoll})} :
              /\ futs' = [futs EXCEPT ![i].fut = Polled(f, r.fut, r.ret, Len(r.bcalls))]
              /\ cells' = [h \in DOMAIN cells |->
                              IF h \in {futs[i].f, futs[i].b}
                              THEN cells[h] + Len(r.bcalls) ELSE cells[h]]
        /\ UNCHANGED <<srv, b, msrv, mfuts, ifuts, objs, jobs>>

NextApplyFactory == FNewService \/ FPoll \/ FCall \/ FCallPoll

SpecApplyFactory == InitApplyFactory /\ [][NextApplyFactory]_vars

\* a step in which produced service s handles a request: a call on it, or a
\* poll of a call future of it that changes the future
Handles(s) ==
    \/ \E i \in 1..Len(futs) : futs[i].s = s /\ futs'[i] # futs[i]
    \/ Len(futs') > Len(futs) /\ futs'[Len(futs')].s = s

\* the step leaves the head and the tail service of produced service t alone
HeadTailUntouched(t) ==
    /\ objs'[t].a = objs[t].a
    /\ cells'[objs[t].b] = cells[objs[t].b]

\* C17 (SpecApplyFactory): services produced by separate new_service calls
\* are independent: handling a request on one changes no state seen through
\* another, the state the chaining function captures included.
C17_ProducedServicesIndependent ==
    [][\A s, t \in 1..Len(objs) :
          (s # t /\ Handles(s)) =>
              (HeadTailUntouched(t) /\ cells'[objs[t].f] = cells[objs[t].f])]_vars

\* C17 as amended: handling a request on one produced service changes neither
\* the head nor the tail service of another; the chaining function is the one
\* value behind the factory's Cell, held by every produced service, and the
\* state it captures reflects the requests of all of them.
C17_IndependentHeadAndTail ==
    /\ [][\A s, t \in 1..Len(objs) :
            (s # t /\ Handles(s)) => HeadTailUntouched(t)]_vars
    /\ [](\A t \in 1..Len(objs) :
            /\ objs[t].f = 1
            /\ cells[objs[t].f] = Sum([i \in 1..Len(futs) |-> futs[i].fut.nb]))

\* two services were produced and each has handled a request up to the run
\* of the chaining function
C17_Witness ==
    /\ Len(objs) = 2
    /\ cells[1] = 2
    /\ cells[objs[1].b] = 1
    /\ cells[objs[2].b] = 1

-----------------------------------------------------------------------------
(* AndThenNewService<A, B>: ifuts holds the AndThenNewServiceFutures *)

\* AndThenNewService::new_service: AndThenNewServiceFuture::new(
\* self.a.new_service(cfg), self.b.new_service(cfg)); req of a sub-future is
\* the cfg its factory was started with
AndThenNewServiceFuture_new(cfg) ==
    [cfg |-> cfg, fut_a |-> NewSub(cfg), fut_b |-> NewSub(cfg),
     a |-> None, b |-> None, ret |-> NoPoll]

\* AndThenNewServiceFuture::poll taking successes only out of the factory
\* futures (if let Poll::Ready(Ok(service)) = ..), a failure left unreported
AndThenNewServiceFuture_poll_swallow(m, pa, pb) ==
    LET aska == ~m.a.some
        m1 == IF aska
              THEN [m EXCEPT !.fut_a = SubAfter(@, pa),
                             !.a = IF pa.tag = "Ok" THEN Some(pa.val) ELSE @]
              ELSE m
        askb == ~m1.b.some
        m2 == IF askb
              THEN [m1 EXCEPT !.fut_b = SubAfter(@, pb),
                              !.b = IF pb.tag = "Ok" THEN Some(pb.val) ELSE @]
              ELSE m1
    IN  IF m2.a.some /\ m2.b.some
        THEN [fut |-> [m2 EXCEPT !.a = None, !.b = None],
              ret |-> ReadyOk(AndThen_new(m2.a.val, m2.b.val))]
        ELSE [fut |-> m2, ret |-> Pending]

\* AndThenNewServiceFuture::poll holding a failure back until both factory
\* futures have resolved
AndThenNewServiceFuture_poll_wait(m, pa, pb) ==
    LET aska == m.fut_a.st = "pending"
        m1 == IF aska
              THEN [m EXCEPT !.fut_a = SubAfter(@, pa),
                             !.a = IF pa.tag = "Ok" THEN Some(pa.val) ELSE @]
              ELSE m
        askb == m1.fut_b.st = "pending"
        m2 == IF askb
              THEN [m1 EXCEPT !.fut_b = SubAfter(@, pb),
                              !.b = IF pb.tag = "Ok" THEN Some(pb.val) ELSE @]
              ELSE m1
    IN  IF "pending" \in {m2.fut_a.st, m2.fut_b.st}
        THEN [fut |-> m2, ret |-> Pending]
        ELSE IF m2.fut_a.out.tag = "Err" THEN [fut |-> m2, ret |-> m2.fut_a.out]
        ELSE IF m2.fut_b.out.tag = "Err" THEN [fut |-> m2, ret |-> m2.fut_b.out]
        ELSE [fut |-> [m2 EXCEPT !.a = None, !.b = None],
              ret |-> ReadyOk(AndThen_new(m2.a.val, m2.b.val))]

\* AndThenNewServiceFuture::poll.  pa and pb are what fut_a.try_poll() and
\* fut_b.try_poll() return if they are polled; `?` returns a failure at once.
\* The result is the future after the poll and the value returned.
AndThenNewServiceFuture_poll(m, pa, pb) ==
    LET \* if self.a.is_none() { if let Poll::Ready(service) = fut_a.try_poll()
        \*     { self.a = Some(service?); } }
        aska == ~m.a.some
        m1 == IF aska
              THEN [m EXCEPT !.fut_a = SubAfter(@, pa),
                             !.a = IF pa.tag = "Ok" THEN Some(pa.val) ELSE @]
              ELSE m
        \* the same for b
        askb == ~m1.b.some
        m2 == IF askb
              THEN [m1 EXCEPT !.fut_b = SubAfter(@, pb),
                              !.b = IF pb.tag = "Ok" THEN Some(pb.val) ELSE @]
              ELSE m1
    IN  IF aska /\ pa.tag \in {"Err", "Panic"} THEN [fut |-> m1, ret |-> pa]
        ELSE IF askb /\ pb.tag \in {"Err", "Panic"} THEN [fut |-> m2, ret |-> pb]
        ELSE IF m2.a.some /\ m2.b.some
        THEN [fut |-> [m2 EXCEPT !.a = None, !.b = None],
              ret |-> ReadyOk(AndThen_new(m2.a.val, m2.b.val))]
        ELSE [fut |-> m2, ret |-> Pending]

\* factory.new_service(cfg)
SNewService ==
    \E cfg \in Cfgs :
        /\ Len(ifuts) < MaxCalls
        /\ ifuts' = Append(ifuts, AndThenNewServiceFuture_new(cfg))
        /\ UNCHANGED <<aux, srv, b, futs, msrv, mfuts>>

\* one poll of an AndThenNewServiceFuture that has not resolved
SPoll ==
    \E i \in 1..Len(ifuts) :
        LET m == ifuts[i] IN
        /\ m.ret \in {NoPoll, Pending}
        /\ \E pa \in (IF ~m.a.some
                      THEN SubPoll(m.fut_a, NewServiceOutcomes(m.fut_a.req))
                      ELSE {NoPoll}) :
           \E pb \in (IF ~m.b.some
                      THEN SubPoll(m.fut_b, BNewServiceOutcomes(m.fut_b.req))
                      ELSE {NoPoll}) :
              LET r == AndThenNewServiceFuture_poll(m, pa, pb) IN
              ifuts' = [ifuts EXCEPT ![i] = [r.fut EXCEPT !.ret = r.ret]]
        /\ UNCHANGED <<aux, srv, b, futs, msrv, mfuts>>

NextAndThenNewService == SNewService \/ SPoll

SpecAndThenNewService == Init /\ [][NextAndThenNewService]_vars

\* C18 (SpecAndThenNewService): the future starts A's and B's factory with
\* the cfg of the call, returns Pending while one of them is unresolved and
\* none has failed, and resolves to AndThen(A's service, B's service) exactly
\* when both have succeeded, in either order; a failure of one resolves it to
\* that failure.
C18_ResolvesWhenBothBuilt ==
    \A i \in 1..Len(ifuts) :
        LET m == ifuts[i] IN
        /\ m.fut_a.req = m.cfg
        /\ m.fut_b.req = m.cfg
        /\ m.ret.tag = "Ok" <=> (m.fut_a.out.tag = "Ok" /\ m.fut_b.out.tag = "Ok")
        /\ m.ret.tag = "Ok" =>
              m.ret.val = AndThen_new(AService(m.cfg), BService(m.cfg))
        /\ (m.ret # NoPoll /\ "pending" \in {m.fut_a.st, m.fut_b.st}
               /\ m.fut_a.out.tag # "Err" /\ m.fut_b.out.tag # "Err")
              <=> m.ret = Pending
        /\ m.fut_a.out.tag = "Err" => m.ret = m.fut_a.out
        /\ m.fut_b.out.tag = "Err" => m.ret = m.fut_b.out

\* one future has resolved to the combined service; the last poll of another
\* returned Pending with B's service built and A's not
C18_Witness ==
    \E i, j \in 1..Len(ifuts) :
        /\ ifuts[i].ret.tag = "Ok"
        /\ ifuts[j].ret = Pending
        /\ ifuts[j].b.some
        /\ ~ifuts[j].a.some

\* C31 (SpecAndThenNewService): an AndThenNewServiceFuture has resolved to the
\* failure of A's or B's factory future as soon as a poll has seen it, the
\* other factory future resolved or not, and a future with a failed factory
\* never resolves to an AndThen service.
C31_FactoryFailureAtOnce ==
    \A i \in 1..Len(ifuts) :
        LET m == ifuts[i]
            failed == {o \in {m.fut_a.out, m.fut_b.out} : o.tag = "Err"}
        IN  /\ failed # {} => (m.ret \in failed /\ m.ret.tag # "Ok")
            /\ m.ret.tag = "Err" => m.ret \in failed
            /\ m.ret.tag = "Ok" => failed = {}
            /\ failed # {} => ~(m.a.some /\ m.b.some)

\* one future resolved to the failure of B's factory with A's factory
\* pending, another to the failure of A's factory with B's factory pending
C31_Witness ==
    \E i, j \in 1..Len(ifuts) :
        /\ ifuts[i].fut_b.out.tag = "Err"
        /\ ifuts[i].fut_a.st = "pending"
        /\ ifuts[i].ret = ifuts[i].fut_b.out
        /\ ifuts[j].fut_a.out.tag = "Err"
        /\ ifuts[j].fut_b.st = "pending"
        /\ ifuts[j].ret = ifuts[j].fut_a.out

-----------------------------------------------------------------------------
(* actix-threadpool: run(f) and CpuFuture.  jobs[j] is the j-th run(f):
   st is where the closure handed to the pool is ("queued", "running" while
   f executes, "finished", "skipped" when it found the receiver gone,
   "panicked" when f unwound, "discarded" when the pool dropped it unrun),
   f the Result f returned, tx the oneshot Sender ("held", "sent",
   "dropped"), msg the message in the channel, rx the Receiver inside the
   CpuFuture ("alive", "dropped"), seen what rx.poll returned to the last
   poll of the CpuFuture and ret what that poll returned. *)

\* the Result<I, E> values f may return
Ok(v) == <<"Ok", v>>
Err(e) == <<"Err", e>>
FResults == {Ok("v1")} \cup {Err(e) : e \in Errs}
NoMsg == <<>>

\* BlockingError<E>
BlockingError_Error(e) == <<"BlockingError::Error", e>>
BlockingError_Canceled == <<"BlockingError::Canceled">>

\* run(f): the channel is created, the closure queued, CpuFuture { rx } returned
NewJob ==
    [st |-> "queued", f |-> NoMsg, tx |-> "held", msg |-> NoMsg, rx |-> "alive",
     seen |-> NoPoll, ret |-> NoPoll]

\* oneshot::Receiver::poll: the message if one was sent, Err(Canceled) if the
\* Sender was dropped without sending, Pending otherwise
Receiver_poll(j) ==
    IF j.msg # NoMsg THEN ReadyOk(j.msg)
    ELSE IF j.tx = "dropped" THEN ReadyErr(<<"Canceled">>)
    ELSE Pending

\* CpuFuture::poll reporting a failure of f as a cancellation
CpuFuture_poll_cancels(p) ==
    CASE p.tag = "Ok" /\ p.val[1] = "Ok" -> ReadyOk(<<p.val[2]>>)
      [] p.tag = "Ok" /\ p.val[1] = "Err" -> ReadyErr(BlockingError_Canceled)
      [] p.tag = "Err" -> ReadyErr(BlockingError_Canceled)
      [] OTHER -> Pending

\* CpuFuture::poll, p being what Pin::new(&mut self.rx).poll(cx) returns
CpuFuture_poll(p) ==
    CASE p.tag = "Ok" /\ p.val[1] = "Ok" -> ReadyOk(<<p.val[2]>>)
      [] p.tag = "Ok" /\ p.val[1] = "Err" -> ReadyErr(BlockingError_Error(p.val[2]))
      [] p.tag = "Err" -> ReadyErr(BlockingError_Canceled)
      [] OTHER -> Pending

InitPool ==
    /\ srv = IdleSrv
    /\ b = IdleB
    /\ futs = NoFuts
    /\ msrv = IdleM
    /\ mfuts = NoFuts
    /\ ifuts = NoFuts
    /\ cells = <<>>
    /\ objs = <<>>
    /\ jobs = <<>>

\* run(f)
Run ==
    /\ Len(jobs) < MaxCalls
    /\ jobs' = Append(jobs, NewJob)
    /\ UNCHANGED <<srv, b, futs, msrv, mfuts, ifuts, cells, objs>>

\* a worker taking the closure without the look at tx.is_canceled(): f is run
\* whether or not the receiver is gone
WorkerStart_unchecked ==
    \E j \in 1..Len(jobs) :
        /\ jobs[j].st = "queued"
        /\ jobs' = [jobs EXCEPT ![j] = [@ EXCEPT !.st = "running"]]
        /\ UNCHANGED <<srv, b, futs, msrv, mfuts, ifuts, cells, objs>>

\* a worker takes the closure: if !tx.is_canceled() { .. f() .. }; with the
\* receiver gone the closure returns at once and the Sender is dropped
WorkerStart ==
    \E j \in 1..Len(jobs) :
        /\ jobs[j].st = "queued"
        /\ jobs' = [jobs EXCEPT ![j] =
                       IF jobs[j].rx = "dropped"
                       THEN [@ EXCEPT !.st = "skipped", !.tx = "dropped"]
                       ELSE [@ EXCEPT !.st = "running"]]
        /\ UNCHANGED <<srv, b, futs, msrv, mfuts, ifuts, cells, objs>>

\* f returns r: let _ = tx.send(r); the message is lost if the receiver is
\* gone by now
WorkerFinish ==
    \E j \in 1..Len(jobs), r \in FResults :
        /\ jobs[j].st = "running"
        /\ jobs' = [jobs EXCEPT ![j] =
                       [@ EXCEPT !.st = "finished", !.f = r, !.tx = "sent",
                                 !.msg = IF jobs[j].rx = "alive" THEN r ELSE NoMsg]]
        /\ UNCHANGED <<srv, b, futs, msrv, mfuts, ifuts, cells, objs>>

\* f unwinds: the Sender is dropped with the closure
WorkerPanic ==
    \E j \in 1..Len(jobs) :
        /\ jobs[j].st = "running"
        /\ jobs' = [jobs EXCEPT ![j] = [@ EXCEPT !.st = "panicked", !.tx = "dropped"]]
        /\ UNCHANGED <<srv, b, futs, msrv, mfuts, ifuts, cells, objs>>

\* the pool goes away with the closure still queued: it is dropped unrun
PoolDiscard ==
    \E j \in 1..Len(jobs) :
        /\ jobs[j].st = "queued"
        /\ jobs' = [jobs EXCEPT ![j] = [@ EXCEPT !.st = "discarded", !.tx = "dropped"]]
        /\ UNCHANGED <<srv, b, futs, msrv, mfuts, ifuts, cells, objs>>

\* one poll of a CpuFuture that is alive and has not resolved
CpuPoll ==
    \E j \in 1..Len(jobs) :
        LET p == Receiver_poll(jobs[j]) IN
        /\ jobs[j].rx = "alive"
        /\ ~is_ready(jobs[j].ret)
        /\ jobs' = [jobs EXCEPT ![j] = [@ EXCEPT !.seen = p, !.ret = CpuFuture_poll(p)]]
        /\ UNCHANGED <<srv, b, futs, msrv, mfuts, ifuts, cells, objs>>

\* the CpuFuture is dropped unresolved, and the Receiver with it
CpuDrop ==
    \E j \in 1..Len(jobs) :
        /\ jobs[j].rx = "alive"
        /\ ~is_ready(jobs[j].ret)
        /\ jobs' = [jobs EXCEPT ![j] = [@ EXCEPT !.rx = "dropped"]]
        /\ UNCHANGED <<srv, b, futs, msrv, mfuts, ifuts, cells, objs>>

NextPool ==
    Run \/ WorkerStart \/ WorkerFinish \/ WorkerPanic \/ PoolDiscard \/ CpuPoll \/ CpuDrop

SpecPool == InitPool /\ [][NextPool]_vars

\* C19 (SpecPool): a poll of a CpuFuture returns Pending as long as the worker
\* has neither sent a result nor dropped the Sender, and otherwise resolves it
\* to Ok(v) when f returned Ok(v), to Err(BlockingError::Error(e)) when f
\* returned Err(e), and to Err(BlockingError::Canceled) when the Sender was
\* dropped with no result sent.
C19_CpuFutureOutcome ==
    \A j \in 1..Len(jobs) :
        LET m == jobs[j] IN
        /\ m.ret = Pending <=> m.seen = Pending
        /\ m.seen # Pending => (m.msg # NoMsg \/ m.tx = "dropped" \/ m.seen = NoPoll)
        /\ (m.st \in {"queued", "running"} /\ m.ret # NoPoll) => m.ret = Pending
        /\ m.ret.tag = "Ok" =>
              (m.st = "finished" /\ m.f[1] = "Ok" /\ m.ret.val = <<m.f[2]>>)
        /\ (m.ret.tag = "Err" /\ m.ret.val # BlockingError_Canceled) =>
              (m.st = "finished" /\ m.f[1] = "Err"
                 /\ m.ret.val = BlockingError_Error(m.f[2]))
        /\ (m.ret.tag = "Err" /\ m.ret.val = BlockingError_Canceled) =>
              (m.tx = "dropped" /\ m.msg = NoMsg
                 /\ m.st \in {"discarded", "panicked"})
        /\ (m.seen.tag = "Ok" /\ m.f[1] = "Ok") => m.ret = ReadyOk(<<m.f[2]>>)
        /\ (m.seen.tag = "Ok" /\ m.f[1] = "Err") =>
              m.ret = ReadyErr(BlockingError_Error(m.f[2]))
        /\ m.seen.tag = "Err" => m.ret = ReadyErr(BlockingError_Canceled)

\* one CpuFuture resolved to the failure f returned; another resolved to
\* Canceled, its job discarded unrun
C19_Witness ==
    \E i, j \in 1..Len(jobs) :
        /\ jobs[i].st = "finished"
        /\ jobs[i].f[1] = "Err"
        /\ jobs[i].ret = ReadyErr(BlockingError_Error(jobs[i].f[2]))
        /\ jobs[j].ret = ReadyErr(BlockingError_Canceled)
        /\ jobs[j].st = "discarded"

\* a job whose closure was skipped or discarded never ran f; one that
\* finished ran f to its result, which is in the channel unless the receiver
\* was gone
C38_Ran ==
    \A j \in 1..Len(jobs) :
        LET m == jobs[j] IN
        /\ m.st \in {"queued", "skipped", "discarded"} => m.f = NoMsg
        /\ m.st = "skipped" => m.rx = "dropped"
        /\ m.st = "finished" => (m.f \in FResults /\ m.tx = "sent")
        /\ (m.st = "finished" /\ m.msg = NoMsg) => m.rx = "dropped"

\* with the CpuFuture dropped, a queued job is never started on f, and a
\* running one goes on to finish (or f unwinds by itself), its result dropped
C38_AfterDrop ==
    \A j \in 1..Len(jobs) :
        LET m == jobs[j]
            n == jobs'[j]
        IN  /\ (m.rx = "dropped" /\ m.st = "queued") =>
                  n.st \in {"queued", "skipped", "discarded"}
            /\ m.st \in {"skipped", "discarded"} => n.st = m.st
            /\ (m.rx = "dropped" /\ m.st = "running") =>
                  /\ n.st \in {"running", "finished", "panicked"}
                  /\ n.st = "finished" => (n.f \in FResults /\ n.msg = NoMsg)

\* C38 (SpecPool): when the CpuFuture is dropped before a worker starts the
\* job, f is never executed; when it is dropped after the worker has started,
\* f runs to its result, which is discarded, the worker neither failing nor
\* panicking over the missing receiver.
C38_DropAndTheWorker == []C38_Ran /\ [][C38_AfterDrop]_vars

\* one job was skipped, its CpuFuture dropped while it was queued; another
\* ran f to a failure after its CpuFuture was dropped, the result discarded
C38_Witness ==
    \E i, j \in 1..Len(jobs) :
        /\ jobs[i].st = "skipped"
        /\ jobs[i].rx = "dropped"
        /\ jobs[j].st = "finished"
        /\ jobs[j].rx = "dropped"
        /\ jobs[j].msg = NoMsg
        /\ jobs[j].f \in {Err(e) : e \in Errs}

-----------------------------------------------------------------------------
(* Ordering inside AndThenFuture, checked under SpecAndThen *)

\* the step is a poll in which the i-th AndThenFuture sees A's call future
\* resolve with success
SeesHeadSucceed(i) ==
    /\ futs[i].fut_a.st = "pending"
    /\ futs'[i].fut_a.st = "taken"
    /\ futs'[i].fut_a.out.tag = "Ok"

\* C20 (SpecAndThen): an AndThenFuture invokes B.call in the very poll that
\* sees A's call future resolve with success, with A's response, and in no
\* other step: never while A's future is pending, never for a failure of A.
C20_TailCalledInPollThatSeesHead ==
    [][/\ \A i \in 1..Len(futs) :
             /\ futs'[i].nb > futs[i].nb <=> SeesHeadSucceed(i)
             /\ SeesHeadSucceed(i) =>
                   /\ futs'[i].nb = futs[i].nb + 1
                   /\ b'.log = Append(b.log, futs'[i].fut_a.out.val)
                   /\ futs'[i].fut_b.req = futs'[i].fut_a.out.val
       /\ b'.log # b.log => \E i \in 1..Len(futs) : SeesHeadSucceed(i)
       /\ \A i \in 1..Len(futs') :
             futs'[i].fut_a.st = "pending" =>
                 (futs'[i].nb = 0 /\ futs'[i].fut_b = NoSub)]_vars

\* one call was polled with A's future pending and B.call not made; another
\* has seen A succeed and made its B.call, B's future still pending
C20_Witness ==
    \E i, j \in 1..Len(futs) :
        /\ futs[i].fut_a.st = "pending"
        /\ futs[i].ret = Pending
        /\ futs[i].nb = 0
        /\ futs[j].fut_a.st = "taken"
        /\ futs[j].nb = 1
        /\ futs[j].fut_b.st = "pending"

\* the stage an AndThenFuture is in, read off its two slots: 0 awaiting A
\* (fut_a holds an unresolved future), 1 awaiting B (fut_b holds one), 2 done
\* (the future in the occupied slot has returned its output)
AndThenFuture_stage(f) ==
    IF f.fut_b.st # "none" THEN (IF f.fut_b.st = "done" THEN 2 ELSE 1)
    ELSE IF f.fut_a.st = "pending" THEN 0 ELSE 2

\* exactly one of fut_a and fut_b is Some
C23_OneSlot ==
    \A i \in 1..Len(futs) :
        (futs[i].fut_a.st = "taken") <=> (futs[i].fut_b.st # "none")

\* no poll moves a future to an earlier stage, empties fut_b or refills fut_a
C23_Forward ==
    \A i \in 1..Len(futs) :
        /\ AndThenFuture_stage(futs'[i]) >= AndThenFuture_stage(futs[i])
        /\ futs[i].fut_b.st # "none" => futs'[i].fut_b.st # "none"
        /\ futs[i].fut_a.st = "taken" => futs'[i].fut_a.st = "taken"

\* C23 (SpecAndThen): an AndThenFuture only moves forward through awaiting A,
\* awaiting B and done, never from awaiting B back to awaiting A, also when it
\* is polled after it has resolved; and between polls exactly one of its two
\* sub-future slots is occupied.
C23_StagesOnlyForward == []C23_OneSlot /\ [][C23_Forward]_vars

\* one future went through awaiting B, resolved and was polled once more;
\* another is awaiting A after a poll
C23_Witness ==
    \E i, j \in 1..Len(futs) :
        /\ futs[i].fut_a.st = "taken"
        /\ futs[i].fut_b.st = "done"
        /\ futs[i].ret # futs[i].out
        /\ futs[j].fut_a.st = "pending"
        /\ futs[j].ret = Pending

-----------------------------------------------------------------------------
(* AndThen::poll_ready and the sub-services it asks.  cells[1] is the counter
   that the poll_ready of both sub-services increments (the Rc<Cell<usize>>
   of Srv1 and Srv2 in the tests), objs[1] the AndThen: n is the number of
   poll_ready invocations made on it, asked the sub-services its last
   poll_ready asked, in order. *)

\* the number of poll_ready invocations made on the AndThen
MaxPolls == 8

\* AndThen::poll_ready with the conjunction short-circuited on A
\* (a.poll_ready().is_ready() && b.poll_ready().is_ready())
AndThen_poll_ready_asked_short(ra) ==
    IF is_ready(ra) THEN <<"a", "b">> ELSE <<"a">>

\* the sub-services AndThen::poll_ready asks, ra being A's answer:
\* `let not_ready = !self.a.poll_ready().is_ready();` then
\* `!self.b.get_mut().poll_ready().is_ready() || not_ready`, B's poll_ready
\* being the left operand of `||`
AndThen_poll_ready_asked(ra) == <<"a", "b">>

InitReady ==
    /\ srv = IdleSrv
    /\ b = IdleB
    /\ futs = NoFuts
    /\ msrv = IdleM
    /\ mfuts = NoFuts
    /\ ifuts = NoFuts
    /\ cells = <<0>>
    /\ objs = <<[n |-> 0, asked |-> <<>>]>>
    /\ jobs = <<>>

\* srv.poll_ready(): every sub-service asked increments the counter
RPollReady ==
    \E ra \in ReadyOuts, rb \in ReadyOuts :
        LET asked == AndThen_poll_ready_asked(ra) IN
        /\ objs[1].n < MaxPolls
        /\ srv' = [a |-> ra, bs |-> rb, out |-> AndThen_poll_ready(ra, rb)]
        /\ objs' = <<[n |-> objs[1].n + 1, asked |-> asked]>>
        /\ cells' = <<cells[1] + Len(asked)>>
        /\ UNCHANGED <<b, futs, msrv, mfuts, ifuts, jobs>>

NextReady == RPollReady

SpecReady == InitReady /\ [][NextReady]_vars

\* C21 (SpecReady): every AndThen::poll_ready asks A.poll_ready once and
\* B.poll_ready once, whatever A answers, so the counter both increment is 2n
\* after n invocations.
C21_BothAskedEveryTime ==
    /\ cells[1] = 2 * objs[1].n
    /\ objs[1].n > 0 =>
          (Count(objs[1].asked, "a") = 1 /\ Count(objs[1].asked, "b") = 1)

\* three invocations, A not ready at the last one
C21_Witness ==
    /\ objs[1].n = 3
    /\ srv.a = Pending
    /\ cells[1] = 6

-----------------------------------------------------------------------------
(* The stages of an AndThenFuture.  futs holds the futures as before;
   objs[i] is what the sub-futures of the i-th one returned in its last
   poll: pa from fut_a and pb from fut_b, NoPoll for one that was not
   polled in that poll. *)

NoSeen == [pa |-> NoPoll, pb |-> NoPoll]

InitStages ==
    /\ srv = IdleSrv
    /\ b = IdleB
    /\ futs = NoFuts
    /\ msrv = IdleM
    /\ mfuts = NoFuts
    /\ ifuts = NoFuts
    /\ cells = <<>>
    /\ objs = [i \in 1..MaxCalls |-> NoSeen]
    /\ jobs = <<>>

\* one poll of the i-th AndThenFuture, which has not resolved
QPoll ==
    \E i \in 1..Len(futs) :
        LET f == futs[i] IN
        /\ f.ret \in {NoPoll, Pending}
        /\ \E pa \in (IF f.fut_b.st = "none"
                      THEN SubPoll(f.fut_a, AOutcomes(f.req)) ELSE {NoPoll}) :
           \E pb \in (IF f.fut_b.st # "none"
                      THEN SubPoll(f.fut_b, BOutcomes(f.fut_b.req))
                      ELSE IF pa.tag = "Ok"
                      THEN SubPoll(NewSub(pa.val), BOutcomes(pa.val))
                      ELSE {NoPoll}) :
              LET r == AndThenFuture_poll(f, pa, pb) IN
              /\ futs' = [futs EXCEPT ![i] = Polled(f, r.fut, r.ret, Len(r.bcalls))]
              /\ b' = [b EXCEPT !.log = @ \o r.bcalls]
              /\ objs' = [objs EXCEPT ![i] = [pa |-> pa, pb |-> pb]]
        /\ UNCHANGED <<srv, msrv, mfuts, ifuts, cells, jobs>>

NextStages == PollReady \/ Call \/ QPoll

SpecStages == InitStages /\ [][NextStages]_vars

\* C22 (SpecStages): a poll of an AndThenFuture returns Pending only if the
\* sub-future of the stage it is in (fut_b once B.call was made, fut_a before)
\* returned Pending in that poll; and a poll in which A's future succeeds and
\* the B future made from its response is ready at once returns B's outcome
\* itself, not Pending.
C22_PendingOnlyFromCurrentStage ==
    \A i \in 1..Len(futs) :
        LET f == futs[i]
            s == objs[i]
        IN  /\ f.ret = Pending =>
                  (IF f.fut_b.st # "none" THEN s.pb = Pending ELSE s.pa = Pending)
            /\ (s.pa.tag = "Ok" /\ is_ready(s.pb)) =>
                  (f.ret = s.pb /\ f.fut_b.out = s.pb /\ f.out = s.pb)

\* one future resolved to B's response in the poll that saw A succeed, its
\* first poll; the last poll of another saw A succeed and B pending
C22_Witness ==
    \E i, j \in 1..Len(futs) :
        /\ objs[i].pa.tag = "Ok"
        /\ objs[i].pb = ReadyOk(BRsp(ARsp(futs[i].req)))
        /\ futs[i].ret = objs[i].pb
        /\ objs[j].pa.tag = "Ok"
        /\ objs[j].pb = Pending
        /\ futs[j].ret = Pending

-----------------------------------------------------------------------------
(* What an AndThenTransformFuture does in a poll.  ifuts holds the futures as
   before; objs[i] is, for the i-th one, pre: the future as its last poll
   found it, trace: what that poll polled and invoked, in order, nt: the
   number of T.new_transform invocations made for it so far. *)

\* a trace in which a pending fut_b ends the poll (ready!(fut_b.try_poll()))
AndThenTransformFuture_trace_serial(m, pb, pa, pt) ==
    LET askb == m.fut_t.st = "none"
        tb == IF askb
              THEN <<"fut_b">> \o (IF pb.tag = "Ok" THEN <<"new_transform">> ELSE <<>>)
              ELSE <<>>
        aska == ~m.a.some
        ta == IF aska THEN <<"fut_a">> ELSE <<>>
        askt == m.fut_t.st # "none" \/ (askb /\ pb.tag = "Ok")
        tt == IF askt THEN <<"fut_t">> ELSE <<>>
    IN  IF askb /\ pb.tag \in {"Err", "Panic", "Pending"} THEN tb
        ELSE IF aska /\ pa.tag \in {"Err", "Panic"} THEN tb \o ta
        ELSE tb \o ta \o tt

\* a trace in which fut_b is polled as long as self.t is None
AndThenTransformFuture_trace_repoll(m, pb, pa, pt) ==
    LET askb == ~m.t.some
        tb == IF askb
              THEN <<"fut_b">> \o (IF pb.tag = "Ok" THEN <<"new_transform">> ELSE <<>>)
              ELSE <<>>
        aska == ~m.a.some
        ta == IF aska THEN <<"fut_a">> ELSE <<>>
        askt == m.fut_t.st # "none" \/ (askb /\ pb.tag = "Ok")
        tt == IF askt THEN <<"fut_t">> ELSE <<>>
    IN  IF askb /\ pb.tag \in {"Err", "Panic"} THEN tb
        ELSE IF aska /\ pa.tag \in {"Err", "Panic"} THEN tb \o ta
        ELSE tb \o ta \o tt

\* AndThenTransformFuture::poll as the sequence of sub-futures it polls and
\* of T.new_transform invocations it makes, for the same m, pb, pa and pt as
\* AndThenTransformFuture_poll
AndThenTransformFuture_trace(m, pb, pa, pt) ==
    LET \* if self.fut_t.is_none() { .. self.fut_b.try_poll() ..
        \*     self.t_cell.new_transform(service?) }
        askb == m.fut_t.st = "none"
        tb == IF askb
              THEN <<"fut_b">> \o (IF pb.tag = "Ok" THEN <<"new_transform">> ELSE <<>>)
              ELSE <<>>
        \* if self.a.is_none() { .. self.fut_a.poll() .. }
        aska == ~m.a.some
        ta == IF aska THEN <<"fut_a">> ELSE <<>>
        \* if let Some(ref mut fut) = self.fut_t { .. fut.try_poll() .. }
        askt == m.fut_t.st # "none" \/ (askb /\ pb.tag = "Ok")
        tt == IF askt THEN <<"fut_t">> ELSE <<>>
    IN  IF askb /\ pb.tag \in {"Err", "Panic"} THEN tb
        ELSE IF aska /\ pa.tag \in {"Err", "Panic"} THEN tb \o ta
        ELSE tb \o ta \o tt

InitTransformTrace ==
    /\ srv = IdleSrv
    /\ b = IdleB
    /\ futs = NoFuts
    /\ msrv = IdleM
    /\ mfuts = NoFuts
    /\ ifuts = NoFuts
    /\ cells = <<>>
    /\ objs = <<>>
    /\ jobs = <<>>

\* factory.new_service(cfg), the n-th call with the n-th cfg
XNewService ==
    LET m == AndThenTransformFuture_new(Cfg(Len(ifuts) + 1)) IN
    /\ Len(ifuts) < MaxCalls
    /\ ifuts' = Append(ifuts, m)
    /\ objs' = Append(objs, [pre |-> m, trace |-> <<>>, nt |-> 0])
    /\ UNCHANGED <<srv, b, futs, msrv, mfuts, cells, jobs>>

\* one poll of an AndThenTransformFuture that has not resolved (and whose
\* last poll did not panic)
XPoll ==
    \E i \in 1..Len(ifuts) :
        LET m == ifuts[i] IN
        /\ m.ret \in {NoPoll, Pending}
        /\ \E pb \in (IF m.fut_t.st = "none"
                      THEN SubPoll(m.fut_b, BNewServiceOutcomes(m.cfg))
                      ELSE {NoPoll}) :
           \E pa \in (IF ~m.a.some
                      THEN SubPoll(m.fut_a, NewServiceOutcomes(m.cfg))
                      ELSE {NoPoll}) :
           \E pt \in (IF m.fut_t.st # "none"
                      THEN SubPoll(m.fut_t, NewTransformOutcomes(m.fut_t.req))
                      ELSE IF pb.tag = "Ok"
                      THEN SubPoll(NewSub(pb.val), NewTransformOutcomes(pb.val))
                      ELSE {NoPoll}) :
              LET r == AndThenTransformFuture_poll(m, pb, pa, pt)
                  t == AndThenTransformFuture_trace(m, pb, pa, pt)
              IN  /\ ifuts' = [ifuts EXCEPT ![i] = [r.fut EXCEPT !.ret = r.ret]]
                  /\ objs' = [objs EXCEPT ![i] =
                                 [pre |-> m, trace |-> t,
                                  nt |-> @.nt + Count(t, "new_transform")]]
        /\ UNCHANGED <<srv, b, futs, msrv, mfuts, cells, jobs>>

NextTransformTrace == XNewService \/ XPoll

SpecTransformTrace == InitTransformTrace /\ [][NextTransformTrace]_vars

\* C25 (SpecTransformTrace): a poll of an AndThenTransformFuture that does not
\* end in a failure polls every branch that has not resolved, whatever the
\* others do: fut_a if it was pending, fut_b if it was pending, and fut_t if
\* the constructor is running and had not yielded, also when it was started
\* in that very poll.
C25_EveryUnresolvedBranchPolled ==
    \A i \in 1..Len(ifuts) :
        LET m == ifuts[i]
            o == objs[i]
        IN  m.ret.tag \in {"Pending", "Ok"} =>
              /\ o.pre.fut_a.st = "pending" => Count(o.trace, "fut_a") = 1
              /\ o.pre.fut_b.st = "pending" => Count(o.trace, "fut_b") = 1
              /\ (m.fut_t.st # "none" /\ o.pre.fut_t.st # "done") =>
                    Count(o.trace, "fut_t") = 1

\* the last poll of one future polled all three branches, B's service built
\* in it, A's factory pending; the last poll of another polled A's factory
\* and T's constructor and left both pending
C25_Witness ==
    \E i, j \in 1..Len(ifuts) :
        /\ ifuts[i].ret = Pending
        /\ objs[i].trace = <<"fut_b", "new_transform", "fut_a", "fut_t">>
        /\ ifuts[i].fut_a.st = "pending"
        /\ ifuts[j].ret = Pending
        /\ objs[j].trace = <<"fut_a", "fut_t">>
        /\ ifuts[j].fut_a.st = "pending"
        /\ ifuts[j].fut_t.st = "pending"

\* C26 (SpecTransformTrace): T.new_transform is invoked at most once for an
\* AndThenTransformFuture, and once exactly when fut_b has resolved to a
\* service: in the poll in which fut_b yields it, right after that, and with
\* that service; fut_b is not polled in any later poll.
C26_TransformStartedOnce ==
    \A i \in 1..Len(ifuts) :
        LET m == ifuts[i]
            o == objs[i]
        IN  /\ o.nt <= 1
            /\ o.nt = 1 <=> m.fut_b.out.tag = "Ok"
            /\ o.nt = 1 => (m.fut_t.st # "none" /\ m.fut_t.req = m.fut_b.out.val)
            /\ Count(o.trace, "new_transform") > 0 =>
                  /\ o.pre.fut_b.st = "pending"
                  /\ o.trace[1] = "fut_b"
                  /\ o.trace[2] = "new_transform"
                  /\ Count(o.trace, "new_transform") = 1
            /\ o.pre.fut_b.st = "done" => Count(o.trace, "fut_b") = 0

\* a future polled again after the poll that started the constructor: the
\* later poll polled A's factory and the constructor only
C26_Witness ==
    \E i \in 1..Len(ifuts) :
        /\ objs[i].nt = 1
        /\ objs[i].pre.fut_b.st = "done"
        /\ objs[i].pre.fut_t.st = "pending"
        /\ objs[i].trace = <<"fut_a", "fut_t">>

\* C27 (SpecTransformTrace): when fut_a, fut_b or fut_t has failed, the
\* AndThenTransformFuture has resolved to that failure in the poll that saw
\* it, whatever the other branches are doing, and never to a service; when
\* fut_b failed, T.new_transform was not invoked.
C27_InitErrorResolvesAtOnce ==
    \A i \in 1..Len(ifuts) :
        LET m == ifuts[i]
            o == objs[i]
        IN  /\ m.fut_b.out.tag = "Err" =>
                  (m.ret = m.fut_b.out /\ o.nt = 0 /\ m.fut_t = NoSub)
            /\ m.fut_a.out.tag = "Err" => m.ret = m.fut_a.out
            /\ m.fut_t.out.tag = "Err" => m.ret = m.fut_t.out
            /\ m.ret.tag = "Err" =>
                  m.ret \in {m.fut_a.out, m.fut_b.out, m.fut_t.out}
            /\ m.ret.tag = "Ok" =>
                  "Err" \notin {m.fut_a.out.tag, m.fut_b.out.tag, m.fut_t.out.tag}

\* one future resolved to the failure of B's factory with A's factory
\* pending, another to the failure of T's constructor with A's factory
\* pending
C27_Witness ==
    \E i, j \in 1..Len(ifuts) :
        /\ ifuts[i].fut_b.out.tag = "Err"
        /\ ifuts[i].ret = ifuts[i].fut_b.out
        /\ ifuts[i].fut_a.st = "pending"
        /\ ifuts[j].fut_t.out.tag = "Err"
        /\ ifuts[j].ret = ifuts[j].fut_t.out
        /\ ifuts[j].fut_a.st = "pending"

\* C36 (SpecTransformTrace): no poll of an AndThenTransformFuture polls a
\* sub-future that had resolved before that poll: not fut_t once it has
\* yielded the transform-service, A's factory pending or not, and not fut_a
\* or fut_b once they have resolved.
C36_NoPollAfterYield ==
    \A i \in 1..Len(ifuts) :
        LET o == objs[i] IN
        /\ o.pre.fut_t.st = "done" => Count(o.trace, "fut_t") = 0
        /\ o.pre.fut_a.st = "done" => Count(o.trace, "fut_a") = 0
        /\ o.pre.fut_b.st = "done" => Count(o.trace, "fut_b") = 0

-----------------------------------------------------------------------------
(* Backpressure through Map, MapErr and FromErr.  objs[i] is one wrapper of
   kind k around an inner service of its own: n is the number of poll_ready
   invocations made on the wrapper, a what the inner service answered at the
   last one and out what the wrapper returned; cells[i] is the number of
   poll_ready invocations the inner service has received. *)

Wrappers == <<"Map", "MapErr", "FromErr">>

InitBackpressure ==
    /\ srv = IdleSrv
    /\ b = IdleB
    /\ futs = NoFuts
    /\ msrv = IdleM
    /\ mfuts = NoFuts
    /\ ifuts = NoFuts
    /\ cells = [i \in 1..Len(Wrappers) |-> 0]
    /\ objs = [i \in 1..Len(Wrappers) |->
                  [k |-> Wrappers[i], n |-> 0, a |-> NoPoll, out |-> NoPoll]]
    /\ jobs = <<>>

\* poll_ready on one of the wrappers: self.service.poll_ready() is evaluated
\* once and its answer r handed through the wrapper's poll_ready
BPollReady ==
    \E i \in 1..Len(Wrappers), r \in ReadyOuts :
        /\ objs[i].n < MaxPolls
        /\ objs' = [objs EXCEPT ![i] =
                       [@ EXCEPT !.n = @ + 1, !.a = r,
                                 !.out = poll_ready(objs[i].k, r).ret]]
        /\ cells' = [cells EXCEPT ![i] = @ + 1]
        /\ UNCHANGED <<srv, b, futs, msrv, mfuts, ifuts, jobs>>

NextBackpressure == BPollReady

SpecBackpressure == InitBackpressure /\ [][NextBackpressure]_vars

\* C33 (SpecBackpressure): poll_ready of Map, MapErr and FromErr asks the inner
\* service once per invocation and returns Pending exactly when the inner
\* service answered Pending and Ready(Ok(())) exactly when it answered
\* Ready(Ok(())); Map returns the inner answer as it is.
C33_BackpressurePreserved ==
    \A i \in 1..Len(Wrappers) :
        LET o == objs[i] IN
        /\ cells[i] = o.n
        /\ o.n > 0 =>
              /\ o.out = Pending <=> o.a = Pending
              /\ o.out = ReadyOk(<<>>) <=> o.a = ReadyOk(<<>>)
              /\ o.out.tag = o.a.tag
              /\ o.k = "Map" => o.out = o.a

\* the Map's inner service was not ready, the MapErr's failed, the FromErr's
\* was ready
C33_Witness ==
    /\ objs[1].a = Pending
    /\ objs[1].out = Pending
    /\ objs[2].a.tag = "Err"
    /\ objs[3].a = ReadyOk(<<>>)
    /\ objs[3].out = ReadyOk(<<>>)

-----------------------------------------------------------------------------
(* Map and the function value each MapFuture holds.  cells is the F values
   alive, each with the number of times that value has been invoked (an F is
   FnMut: invoking it may change it); cells[1] is the Map's own f.  msrv and
   mfuts are the Map and its MapFutures as before, objs[i].f the F value the
   i-th MapFuture holds. *)

\* Map::call handing the future the Map's own f instead of a clone
Map_call_shared(heap, h) == [f |-> h, cells |-> heap]

\* Map::call: MapFuture::new(self.service.call(req), self.f.clone()).  h is
\* the Map's f; F::clone makes a new F value equal to it.  The result is the
\* F value of the future and the F values alive after the call.
Map_call(heap, h) == [f |-> Len(heap) + 1, cells |-> Append(heap, heap[h])]

InitMapClone ==
    /\ srv = IdleSrv
    /\ b = IdleB
    /\ futs = NoFuts
    /\ msrv = IdleM
    /\ mfuts = NoFuts
    /\ ifuts = NoFuts
    /\ cells = <<0>>
    /\ objs = <<>>
    /\ jobs = <<>>

\* map.call(req), by a caller that keeps Service's contract
KCall ==
    LET c == Map_call(cells, 1) IN
    /\ msrv.out = ReadyOk(<<>>)
    /\ Len(mfuts) < MaxCalls
    /\ mfuts' = Append(mfuts, MFuture_new(Req(Len(mfuts) + 1)))
    /\ objs' = Append(objs, [f |-> c.f])
    /\ cells' = c.cells
    /\ UNCHANGED <<srv, b, futs, msrv, ifuts, jobs>>

\* one poll of an unresolved MapFuture: (self.f)(resp) invokes the F value the
\* future holds
KPoll ==
    \E i \in 1..Len(mfuts) :
        LET m == mfuts[i] IN
        /\ ~is_ready(m.ret)
        /\ \E p \in SubPoll(m.fut, AOutcomes(m.req)) :
              LET o == MapFuture_try_poll(p) IN
              /\ mfuts' = [mfuts EXCEPT ![i] =
                              [m EXCEPT !.fut = SubAfter(m.fut, p), !.in = p,
                                        !.ret = o.ret, !.nf = m.nf + o.fcalls]]
              /\ cells' = [cells EXCEPT ![objs[i].f] = @ + o.fcalls]
        /\ UNCHANGED <<srv, b, futs, msrv, ifuts, objs, jobs>>

NextMapClone == MPollReady("Map") \/ KCall \/ KPoll

SpecMapClone == InitMapClone /\ [][NextMapClone]_vars

\* C32 (SpecMapClone): every MapFuture holds an F value of its own, cloned from
\* the Map's f at the call: it invokes that value at most once, and the
\* invocations made by one future change neither the Map's own f nor the F
\* value of any other future.
C32_OwnFunctionClone ==
    /\ cells[1] = 0
    /\ \A i \in 1..Len(mfuts) :
          /\ objs[i].f # 1
          /\ cells[objs[i].f] = mfuts[i].nf
          /\ mfuts[i].nf <= 1
          /\ \A j \in 1..Len(mfuts) : j # i => objs[j].f # objs[i].f

\* one in-flight call has invoked its clone, another made before that has not
C32_Witness ==
    \E i, j \in 1..Len(mfuts) :
        /\ i < j
        /\ mfuts[j].nf = 1
        /\ cells[objs[j].f] = 1
        /\ mfuts[i].ret = Pending
        /\ cells[objs[i].f] = 0

-----------------------------------------------------------------------------
(* Mutable views of the shared tail service B.  A handler (poll_ready, call,
   a poll of a call future) is the sequence of what it does, in order;
   "get_mut" is self.b.get_mut() yielding a mutable view of B and "end" the
   end of that view.  Handlers run one after another (one polling context).
   objs is an AndThen or AndThenApply (k) and its clones, all on one Cell<B>,
   each with what its last poll_ready returned; futs is their call futures;
   cells[1] is the number of views of B live now, cells[2] the most that were
   live at one moment during the last handler. *)

\* Cell::get_mut in an expression self.b.get_mut().m(..): the view is a
\* temporary that lives while m runs and ends with the statement
Cell_get_mut(use) == <<"get_mut">> \o use \o <<"end">>

\* AndThen::poll_ready: A is asked first, then B through the view
AndThen_poll_ready_views(ra) ==
    <<"A::poll_ready">> \o Cell_get_mut(<<"B::poll_ready">>)

\* AndThenApply::poll_ready: `?` returns before B is looked at when A failed
AndThenApply_poll_ready_views(ra) ==
    IF ra.tag = "Err" THEN <<"A::poll_ready">>
    ELSE <<"A::poll_ready">> \o Cell_get_mut(<<"B::poll_ready">>)

\* AndThen::call and AndThenApply::call: self.b.clone() takes no view
AndThen_call_views == <<"A::call", "Cell::clone">>

\* AndThenFuture::poll keeping the view it made B.call through
AndThenFuture_poll_views_held(f, pa) ==
    IF f.fut_b.st # "none" THEN <<"fut_b">>
    ELSE IF pa.tag = "Ok"
    THEN <<"fut_a", "get_mut", "B::call", "fut_b">>
    ELSE <<"fut_a">>

\* AndThenFuture::poll: fut_b is polled on its own; B.call(resp) is made
\* through a view that ends before the recursive self.try_poll()
AndThenFuture_poll_views(f, pa) ==
    IF f.fut_b.st # "none" THEN <<"fut_b">>
    ELSE IF pa.tag = "Ok"
    THEN <<"fut_a">> \o Cell_get_mut(<<"B::call">>) \o <<"fut_b">>
    ELSE <<"fut_a">>

\* AndThenApplyFuture::poll: F is invoked with the view, which ends when F
\* returns (F's result type cannot hold the borrow)
AndThenApplyFuture_poll_views(f, pa) ==
    IF f.fut_b.st # "none" THEN <<"fut_b">>
    ELSE IF pa.tag = "Ok"
    THEN <<"fut_a">> \o Cell_get_mut(<<"F">>) \o <<"fut_b">>
    ELSE <<"fut_a">>

\* the number of views live after trace t, n being live before it
RECURSIVE LiveAfter(_, _)
LiveAfter(t, n) ==
    IF t = <<>> THEN n
    ELSE LiveAfter(Tail(t), CASE t[1] = "get_mut" -> n + 1
                              [] t[1] = "end" -> n - 1
                              [] OTHER -> n)

\* the most views live at one moment during trace t, n being live before it
RECURSIVE PeakLive(_, _)
PeakLive(t, n) ==
    IF t = <<>> THEN n
    ELSE LET m == LiveAfter(<<t[1]>>, n)
             p == PeakLive(Tail(t), m)
         IN  IF p > n THEN p ELSE n

InitViews ==
    /\ srv = IdleSrv
    /\ b = IdleB
    /\ futs = NoFuts
    /\ msrv = IdleM
    /\ mfuts = NoFuts
    /\ ifuts = NoFuts
    /\ cells = <<0, 0>>
    /\ \E k \in {"AndThen", "AndThenApply"} : objs = <<[k |-> k, out |-> NoPoll]>>
    /\ jobs = <<>>

\* service.clone(): another service on the same Cell<B>
VClone ==
    \E c \in 1..Len(objs) :
        /\ Len(objs) < MaxObjs
        /\ objs' = Append(objs, [k |-> objs[c].k, out |-> NoPoll])
        /\ cells' = <<cells[1], cells[1]>>
        /\ UNCHANGED <<srv, b, futs, msrv, mfuts, ifuts, jobs>>

\* poll_ready on the service or a clone
VPollReady ==
    \E c \in 1..Len(objs) :
        LET k == objs[c].k IN
        \E r \in UNION {{IF k = "AndThen"
                          THEN [t |-> AndThen_poll_ready_views(ra),
                                out |-> AndThen_poll_ready(ra, rb)]
                          ELSE [t |-> AndThenApply_poll_ready_views(ra),
                                out |-> AndThenApply_poll_ready(ra, rb).ret]
                          : rb \in ReadyOuts} : ra \in ReadyOuts} :
            /\ objs' = [objs EXCEPT ![c].out = r.out]
            /\ cells' = <<LiveAfter(r.t, cells[1]), PeakLive(r.t, cells[1])>>
            /\ UNCHANGED <<srv, b, futs, msrv, mfuts, ifuts, jobs>>

\* call on the service or a clone whose last poll_ready returned Ready(Ok(()))
VCall ==
    \E c \in 1..Len(objs) :
        LET t == AndThen_call_views IN
        /\ objs[c].out = ReadyOk(<<>>)
        /\ Len(futs) < MaxCalls
        /\ futs' = Append(futs, AndThenFuture_new(Req(Len(futs) + 1)))
        /\ cells' = <<LiveAfter(t, cells[1]), PeakLive(t, cells[1])>>
        /\ UNCHANGED <<srv, b, msrv, mfuts, ifuts, objs, jobs>>

\* one poll of a call future that has not resolved
VPoll ==
    \E i \in 1..Len(futs) :
        LET f == futs[i]
            k == objs[1].k
        IN  /\ f.ret \in {NoPoll, Pending}
            /\ \E pa \in (IF f.fut_b.st = "none"
                          THEN SubPoll(f.fut_a, AOutcomes(f.req)) ELSE {NoPoll}) :
               \E pb \in (IF f.fut_b.st # "none"
                          THEN SubPoll(f.fut_b, BOutcomes(f.fut_b.req))
                          ELSE IF pa.tag = "Ok"
                          THEN SubPoll(NewSub(pa.val), BOutcomes(pa.val))
                          ELSE {NoPoll}) :
                  LET r == IF k = "AndThen" THEN AndThenFuture_poll(f, pa, pb)
                           ELSE AndThenApplyFuture_poll(f, pa, pb)
                      t == IF k = "AndThen" THEN AndThenFuture_poll_views(f, pa)
                           ELSE AndThenApplyFuture_poll_views(f, pa)
                  IN  /\ futs' = [futs EXCEPT ![i] =
                                     Polled(f, r.fut, r.ret, Len(r.bcalls))]
                      /\ cells' = <<LiveAfter(t, cells[1]), PeakLive(t, cells[1])>>
            /\ UNCHANGED <<srv, b, msrv, mfuts, ifuts, objs, jobs>>

NextViews == VClone \/ VPollReady \/ VCall \/ VPoll

SpecViews == InitViews /\ [][NextViews]_vars

\* C34 (SpecViews): over every sequence of poll_ready and call on an AndThen
\* or AndThenApply and its clones and of polls of their call futures, run one
\* after another, at most one mutable view of the shared B is live at any
\* moment of a handler, and none is live between two handlers.
C34_OneViewAtATime ==
    /\ cells[1] = 0
    /\ cells[2] <= 1

\* a poll just made B.call through a view and left its fut_b pending, with a
\* clone of the service and another call in flight
C34_Witness ==
    /\ cells[2] = 1
    /\ Len(objs) = 2
    /\ \E i, j \in 1..Len(futs) :
          /\ i # j
          /\ futs[i].fut_b.st = "pending"
          /\ futs[i].ret = Pending
          /\ futs[j].fut_a.st = "pending"

-----------------------------------------------------------------------------
(* Dropping an AndThenFuture.  futs and objs are as under SpecStages; a
   future that was dropped has ret = Dropped and is not polled again. *)

Dropped == [tag |-> "Dropped", val |-> <<>>]

\* a drop that hands what the future holds on to B before it goes
AndThenFuture_drop_flush(f) ==
    [fut |-> [f EXCEPT !.fut_a = IF @.st = "pending" THEN [@ EXCEPT !.st = "dropped"] ELSE @,
                       !.fut_b = IF @.st = "pending" THEN [@ EXCEPT !.st = "dropped"] ELSE @],
     bcalls |-> IF f.fut_a.st = "pending" THEN <<ARsp(f.req)>> ELSE <<>>]

\* drop of an AndThenFuture: it has no Drop impl, so its fields are dropped
\* one by one, the Cell clone b, fut_a and fut_b; the sub-future it holds is
\* abandoned and nothing is invoked on B.  The result is the future after the
\* drop and the requests handed to B.call during it.
AndThenFuture_drop(f) ==
    [fut |-> [f EXCEPT !.fut_a = IF @.st = "pending" THEN [@ EXCEPT !.st = "dropped"] ELSE @,
                       !.fut_b = IF @.st = "pending" THEN [@ EXCEPT !.st = "dropped"] ELSE @],
     bcalls |-> <<>>]

\* an AndThenFuture that has not resolved is dropped
DDrop ==
    \E i \in 1..Len(futs) :
        LET f == futs[i]
            r == AndThenFuture_drop(f)
        IN  /\ f.ret \in {NoPoll, Pending}
            /\ futs' = [futs EXCEPT ![i] = Polled(f, r.fut, Dropped, Len(r.bcalls))]
            /\ b' = [b EXCEPT !.log = @ \o r.bcalls]
            /\ UNCHANGED <<srv, msrv, mfuts, ifuts, cells, objs, jobs>>

NextDrop == PollReady \/ Call \/ QPoll \/ DDrop

SpecDrop == InitStages /\ [][NextDrop]_vars

\* a future dropped while awaiting A has made no B.call, and B has not been
\* handed its request's response
C35_NoTailCall ==
    \A i \in 1..Len(futs) :
        futs[i].fut_a.st = "dropped" =>
            /\ futs[i].ret = Dropped
            /\ futs[i].nb = 0
            /\ futs[i].fut_b.st = "none"
            /\ Count(b.log, ARsp(futs[i].req)) = 0

\* a drop leaves B and every other future as they are
C35_DropLeavesRest ==
    \A i \in 1..Len(futs) :
        (futs'[i].ret = Dropped /\ futs[i].ret # Dropped) =>
            /\ b' = b
            /\ \A j \in 1..Len(futs) : j # i => futs'[j] = futs[j]

\* C35 (SpecDrop): when an AndThenFuture is dropped while it awaits A, B.call
\* is never invoked for its request, the drop leaves the shared B unchanged,
\* and the other calls in flight are as they were and go on to resolve.
C35_DropAwaitingHead == []C35_NoTailCall /\ [][C35_DropLeavesRest]_vars

\* one future was dropped awaiting A after a poll that found A pending; a
\* call made before it has resolved to B's response
C35_Witness ==
    \E i, j \in 1..Len(futs) :
        /\ j < i
        /\ futs[i].fut_a.st = "dropped"
        /\ objs[i].pa = Pending
        /\ futs[j].out = ReadyOk(BRsp(ARsp(futs[j].req)))

-----------------------------------------------------------------------------
(* The order of B.call on the shared tail.  futs and b are as under
   SpecAndThen; cells is the calls, by their position in the order of
   AndThen::call, whose A future a poll has seen succeed, in the order of
   those polls. *)

\* one poll of the i-th AndThenFuture, which has not resolved
OPoll ==
    \E i \in 1..Len(futs) :
        LET f == futs[i] IN
        /\ f.ret \in {NoPoll, Pending}
        /\ \E pa \in (IF f.fut_b.st = "none"
                      THEN SubPoll(f.fut_a, AOutcomes(f.req)) ELSE {NoPoll}) :
           \E pb \in (IF f.fut_b.st # "none"
                      THEN SubPoll(f.fut_b, BOutcomes(f.fut_b.req))
                      ELSE IF pa.tag = "Ok"
                      THEN SubPoll(NewSub(pa.val), BOutcomes(pa.val))
                      ELSE {NoPoll}) :
              LET r == AndThenFuture_poll(f, pa, pb) IN
              /\ futs' = [futs EXCEPT ![i] = Polled(f, r.fut, r.ret, Len(r.bcalls))]
              /\ b' = [b EXCEPT !.log = @ \o r.bcalls]
              /\ cells' = IF pa.tag = "Ok" THEN Append(cells, i) ELSE cells
        /\ UNCHANGED <<srv, msrv, mfuts, ifuts, objs, jobs>>

NextOrder == PollReady \/ Call \/ OPoll

SpecOrder == Init /\ [][NextOrder]_vars

\* C37 (SpecOrder): with several calls of one AndThen in flight, the calls
\* B.call receives on the shared tail are, in order, those of the futures
\* whose A future a poll saw succeed, in the order of those polls, whatever
\* the order of AndThen::call; each is made with the A response of its own
\* call.
C37_TailCallsInSuccessOrder ==
    /\ Len(b.log) = Len(cells)
    /\ \A k \in 1..Len(cells) :
          /\ b.log[k] = ARsp(Req(cells[k]))
          /\ b.log[k] = futs[cells[k]].fut_a.out.val
          /\ futs[cells[k]].fut_b.req = b.log[k]

\* the second call's A future was seen to succeed before the first's, and B
\* was called for the second before the first
C37_Witness ==
    /\ cells = <<2, 1>>
    /\ b.log = <<ARsp(Req(2)), ARsp(Req(1))>>
    /\ futs[2].fut_b.st = "pending"

-----------------------------------------------------------------------------
(* Progress of an AndThenFuture under a driver that keeps polling.  futs
   holds the futures as before; objs[i] is what the sub-futures of the i-th
   one have become ready with: a for the future of A.call, b for the future
   of B.call, NoPoll while that future has nothing to give yet.  A poll of a
   sub-future returns what it is ready with, or Pending.  The service stays
   ready: calls are made one after another without a poll_ready between. *)

NotYet == [a |-> NoPoll, b |-> NoPoll]

\* the service has just answered poll_ready with Ready(Ok(())), both parts
\* ready
InitLive ==
    /\ srv = [a |-> ReadyOk(<<>>), bs |-> ReadyOk(<<>>),
              out |-> AndThen_poll_ready(ReadyOk(<<>>), ReadyOk(<<>>))]
    /\ b = IdleB
    /\ futs = NoFuts
    /\ msrv = IdleM
    /\ mfuts = NoFuts
    /\ ifuts = NoFuts
    /\ cells = <<>>
    /\ objs = [i \in 1..MaxCalls |-> NotYet]
    /\ jobs = <<>>

\* the future of A.call of the i-th call becomes ready
LReadyA(i) ==
    /\ i <= Len(futs)
    /\ objs[i].a = NoPoll
    /\ \E o \in AOutcomes(futs[i].req) :
           objs' = [objs EXCEPT ![i] = [@ EXCEPT !.a = o]]
    /\ UNCHANGED <<srv, b, futs, msrv, mfuts, ifuts, cells, jobs>>

\* the future of B.call of the i-th call, once made, becomes ready
LReadyB(i) ==
    /\ i <= Len(futs)
    /\ futs[i].fut_b.st = "pending"
    /\ objs[i].b = NoPoll
    /\ \E o \in BOutcomes(futs[i].fut_b.req) :
           objs' = [objs EXCEPT ![i] = [@ EXCEPT !.b = o]]
    /\ UNCHANGED <<srv, b, futs, msrv, mfuts, ifuts, cells, jobs>>

\* what a poll of a sub-future returns, given what it is ready with
Sub_try_poll(o) == IF o = NoPoll THEN Pending ELSE o

\* one poll of the i-th AndThenFuture, which has not resolved.  A future of
\* B.call made in this poll may be ready at once.
LPoll(i) ==
    /\ i <= Len(futs)
    /\ futs[i].ret \in {NoPoll, Pending}
    /\ LET f == futs[i]
           pa == IF f.fut_b.st = "none" THEN Sub_try_poll(objs[i].a) ELSE NoPoll
       IN  \E pb \in (IF f.fut_b.st # "none"
                      THEN {Sub_try_poll(objs[i].b)}
                      ELSE IF pa.tag = "Ok"
                      THEN SubPoll(NewSub(pa.val), BOutcomes(pa.val))
                      ELSE {NoPoll}) :
              LET r == AndThenFuture_poll(f, pa, pb) IN
              /\ futs' = [futs EXCEPT ![i] = Polled(f, r.fut, r.ret, Len(r.bcalls))]
              /\ b' = [b EXCEPT !.log = @ \o r.bcalls]
              /\ objs' = [objs EXCEPT ![i] =
                            [@ EXCEPT !.b = IF is_ready(pb) THEN pb ELSE @]]
    /\ UNCHANGED <<srv, msrv, mfuts, ifuts, cells, jobs>>

NextLive ==
    \/ Call
    \/ \E i \in 1..MaxCalls : LReadyA(i)
    \/ \E i \in 1..MaxCalls : LReadyB(i)
    \/ \E i \in 1..MaxCalls : LPoll(i)

\* the driver keeps polling every future that has not resolved; nothing is
\* assumed of the sub-futures
SpecLive ==
    /\ InitLive
    /\ [][NextLive]_vars
    /\ \A i \in 1..MaxCalls : WF_vars(LPoll(i))

Called(i) == i <= Len(futs)
Resolved(i) == Called(i) /\ is_ready(futs[i].ret)
InStageB(i) == Called(i) /\ futs[i].fut_b.st # "none"
ReadyA(i) == Called(i) /\ objs[i].a # NoPoll
ReadyB(i) == Called(i) /\ objs[i].b # NoPoll

\* C39 (SpecLive): under a driver that keeps polling, if the future of A.call
\* becomes ready and, whenever B.call was made, the future of B.call becomes
\* ready, the AndThenFuture resolves; and a future whose current stage's
\* sub-future is ready does not stay Pending: it leaves the stage of A for the
\* stage of B or resolves, and it resolves from the stage of B.
C39_ResolvesWhenStagesResolve ==
    \A i \in 1..MaxCalls :
        /\ (<>ReadyA(i) /\ [](InStageB(i) => <>ReadyB(i)))
              => [](Called(i) => <>Resolved(i))
        /\ (ReadyA(i) /\ ~InStageB(i)) ~> (InStageB(i) \/ Resolved(i))
        /\ ReadyB(i) ~> Resolved(i)

\* one future resolved to B's response, B's future having been pending when
\* it was made; another resolved to the failure of A
C39_Witness ==
    \E i, j \in 1..Len(futs) :
        /\ futs[i].ret = ReadyOk(BRsp(ARsp(futs[i].req)))
        /\ futs[i].fut_b.out = futs[i].ret
        /\ objs[i].b = futs[i].ret
        /\ futs[j].ret \in {ReadyErr(<<e>>) : e \in Errs}
        /\ futs[j].fut_b.st = "none"
        /\ objs[j].a = futs[j].ret

=============================================================================
